---- MODULE Spec2Model ----
(***************************************************************************)
(* A model of the battle engine of pokemon_project (state.py, damage.py,   *)
(* move_effects.py, ai_policy.py, env.py).                                 *)
(*                                                                         *)
(* One BattleEnv is modelled.  The variables are the fields of BattleEnv,  *)
(* BattleState, FieldState and PokemonState; one call of BattleEnv.step is *)
(* the sequence  BeginTurn ; Act* ; EndOfTurn? ; StepReturn  driven by pc. *)
(* Every random.* call of the code is a nondeterministic choice.           *)
(* Fractions that the code holds in floats are exact rationals <<n, d>>.   *)
(***************************************************************************)
EXTENDS Integers, Sequences, FiniteSets, TLC

VARIABLES
    mons,        \* [<<side, slot>> -> PokemonState]   (SideState.party)
    active,      \* [side -> slot]                     (SideState.active[0])
    field,       \* FieldState
    turn,        \* BattleState.turn
    done,        \* BattleEnv.done
    winner,      \* BattleEnv.winner  (NoSide = None)
    turn_skip_action,   \* BattleEnv._turn_skip_action
    turn_has_acted,     \* BattleEnv._turn_has_acted
    pc,          \* position inside step(): "idle", "act", "eot", "ret"
    queue,       \* the rest of apply_turn's `actions` list
    call,        \* the step() call in progress: its argument and the state it started from
    ret,         \* what the last step() returned
    log          \* what the current turn has done so far, in order

vars == <<mons, active, field, turn, done, winner, turn_skip_action,
          turn_has_acted, pc, queue, call, ret, log>>

(***************************************************************************)
(* Bounds of the model.                                                    *)
(***************************************************************************)
MaxTurn == 3          \* step() is called only while BattleState.turn <= MaxTurn

(***************************************************************************)
(* Small helpers.                                                          *)
(***************************************************************************)
NoSide == 2           \* Optional[int] None for a side index
NoAccuracy == 0 - 1   \* MoveData.accuracy None
NoItem == "None"      \* PokemonState.item None
NoStatus == "None"    \* PokemonState.status None
NoMove == "None"      \* PokemonState.last_move_used None
NoSub == 0            \* PokemonState.substitute_hp None

Sides == {0, 1}

Max(a, b) == IF a >= b THEN a ELSE b
Min(a, b) == IF a <= b THEN a ELSE b
Contains(seq, x) == \E i \in 1..Len(seq) : seq[i] = x

\* F at v: the body of F reads the intermediate value v under F's parameter name
With(v, F(_)) == F(v)

\* floor(n / d) for d > 0 and any integer n (Python // and math.floor)
FloorDiv(n, d) == n \div d

\* rationals <<n, d>> with d > 0
RMul(p, q) == <<p[1] * q[1], p[2] * q[2]>>
ROne == <<1, 1>>

(***************************************************************************)
(* state.py                                                                *)
(***************************************************************************)
STAT_NAMES == <<"HP", "Atk", "Def", "SpA", "SpD", "Spe">>
StageStats == {"Atk", "Def", "SpA", "SpD", "Spe"}
AllStageKeys == StageStats \cup {"Acc", "Eva"}

\* nature_multipliers of calc_stat, for the natures the teams use
nature_inc(nature) ==
    CASE nature = "Adamant" -> "Atk"
      [] nature = "Modest"  -> "SpA"
      [] nature = "Timid"   -> "Spe"
      [] nature = "Brave"   -> "Atk"
      [] OTHER -> "none"

nature_dec(nature) ==
    CASE nature = "Adamant" -> "SpA"
      [] nature = "Modest"  -> "Atk"
      [] nature = "Timid"   -> "Atk"
      [] nature = "Brave"   -> "Spe"
      [] OTHER -> "none"

\* a stage multiplier that raises the stat for a lowered stage as for a raised
\* one, to compare stage_scaled with
stage_scaled_by_size(raw, stage) ==
    IF stage > 0 THEN FloorDiv(raw * (2 + stage), 2)
    ELSE IF stage < 0 THEN FloorDiv(raw * (2 - stage), 2)
    ELSE raw

\* the stat stage multiplier of calc_stat
stage_scaled(raw, stage) ==
    IF stage > 0 THEN FloorDiv(raw * (2 + stage), 2)
    ELSE IF stage < 0 THEN FloorDiv(raw * 2, 2 - stage)
    ELSE raw

\* PokemonState.calc_stat with an explicit stage (the code reads self.stat_stages)
calc_stat_at(mon, stat, stg) ==
    LET base == mon.base_stats[stat]
        iv   == 31
        lvl  == mon.level
    IN IF stat = "HP"
       THEN IF base = 1 THEN 1
            ELSE FloorDiv((2 * base + iv) * lvl, 100) + lvl + 10
       ELSE LET stage0 == IF mon.item = "Soul Dew" /\ mon.species \in {"Latias", "Latios"}
                             /\ stat \in {"SpA", "SpD"}
                          THEN stg + 1 ELSE stg
            IN With(FloorDiv((2 * base + iv) * lvl, 100) + 5, LAMBDA raw0 :
               With(IF stat = nature_inc(mon.nature) THEN FloorDiv(raw0 * 110, 100)
                    ELSE IF stat = nature_dec(mon.nature) THEN FloorDiv(raw0 * 90, 100)
                    ELSE raw0, LAMBDA raw1 :
               With(Max(0 - 6, Min(6, stage0)), LAMBDA stage :
               With(stage_scaled(raw1, stage), LAMBDA raw2 :
               With(IF mon.ability = "Marvel Scale" /\ mon.status # NoStatus /\ stat = "Def"
                    THEN FloorDiv(raw2 * 3, 2) ELSE raw2, LAMBDA raw3 :
               Max(1, raw3))))))

calc_stat(mon, stat) ==
    calc_stat_at(mon, stat, IF stat = "HP" THEN 0 ELSE mon.stat_stages[stat])

max_hp(mon) == calc_stat(mon, "HP")


\* PokemonState.get_stage_value / set_stage_value: "Acc" and "Eva" are the
\* accuracy_stage and evasion_stage fields, every other key is in stat_stages
get_stage_value(mon, stat) ==
    IF stat = "Acc" THEN mon.accuracy_stage
    ELSE IF stat = "Eva" THEN mon.evasion_stage
    ELSE mon.stat_stages[stat]

\* a stage store without the clamp, to compare clamp_stage with
clamp_stage_none(value) == value

\* max(-6, min(6, value)): the clamp of set_stage_value and of change_stat_stage
clamp_stage(value) == Max(0 - 6, Min(6, value))

set_stage_value(mon, stat, value) ==
    LET clamped == clamp_stage(value)
    IN IF stat = "Acc" THEN [mon EXCEPT !.accuracy_stage = clamped]
       ELSE IF stat = "Eva" THEN [mon EXCEPT !.evasion_stage = clamped]
       ELSE [mon EXCEPT !.stat_stages[stat] = clamped]

\* a clear_negative_stages that leaves accuracy and evasion alone, to compare
\* clear_negative_stages with
clear_negative_stat_stages_only(mon) ==
    [mon EXCEPT !.stat_stages = [s \in StageStats |-> Max(0, mon.stat_stages[s])]]

\* PokemonState.clear_negative_stages
clear_negative_stages(mon) ==
    [mon EXCEPT !.stat_stages = [s \in StageStats |-> Max(0, mon.stat_stages[s])],
                !.accuracy_stage = Max(0, mon.accuracy_stage),
                !.evasion_stage = Max(0, mon.evasion_stage)]

\* PokemonState.is_grounded (is_gravity, magnet_rise and telekinesis are never
\* set by the engine)
is_grounded(mon) ==
    IF mon.current_hp <= 0 THEN FALSE
    ELSE IF Contains(mon.types, "Flying") /\ mon.item # "Iron Ball" THEN FALSE
    ELSE IF mon.ability = "Levitate" THEN FALSE
    ELSE IF mon.item = "Air Balloon" THEN FALSE
    ELSE TRUE

\* PokemonState.get_effective_speed; mult is a product of 2.0, 0.25 and 1.5,
\* exact in a float, so int(base_speed * mult) is the floor of the rational
get_effective_speed(mon, fld, side_idx) ==
    LET base_speed == calc_stat(mon, "Spe")
        w == fld.weather
        m1 == IF \/ (w = "Rain" /\ mon.ability = "Swift Swim")
                 \/ (w = "Sun" /\ mon.ability = "Chlorophyll")
                 \/ (w = "Sandstorm" /\ mon.ability = "Sand Rush")
                 \/ (w \in {"Hail", "Snow"} /\ mon.ability = "Slush Rush")
              THEN <<2, 1>> ELSE ROne
        m2 == IF mon.status = "par" /\ mon.ability # "Quick Feet" THEN <<1, 4>> ELSE ROne
        m3 == IF mon.ability = "Quick Feet" /\ mon.status # NoStatus THEN <<3, 2>> ELSE ROne
        m4 == IF side_idx \in Sides /\ fld.tailwind[side_idx] THEN <<2, 1>> ELSE ROne
        mult == RMul(RMul(m1, m2), RMul(m3, m4))
    IN Max(1, FloorDiv(base_speed * mult[1], mult[2]))

(***************************************************************************)
(* data_loader.py: MoveData, and the moves the teams use                   *)
(***************************************************************************)
MoveData(name, type, category, power, accuracy, pp, priority) ==
    [name |-> name, type |-> type, category |-> category, power |-> power,
     accuracy |-> accuracy, pp |-> pp, effect_chance |-> 0, priority |-> priority,
     multihit |-> <<1, 1>>, target_def_halved |-> FALSE, has_secondary |-> FALSE]

Tackle       == MoveData("Tackle", "Normal", "Physical", 40, 100, 35, 0)
QuickAttack  == MoveData("Quick Attack", "Normal", "Physical", 40, 100, 30, 1)
WingAttack   == MoveData("Wing Attack", "Flying", "Physical", 60, 100, 35, 0)
Splash       == MoveData("Splash", "Normal", "Status", 0, 100, 20, 0)
SwordsDance  == MoveData("Swords Dance", "Normal", "Status", 0, 100, 20, 0)
Growl        == MoveData("Growl", "Normal", "Status", 0, 100, 40, 0)
Screech      == MoveData("Screech", "Normal", "Status", 0, 85, 40, 0)
ThunderWave  == MoveData("Thunder Wave", "Electric", "Status", 0, 90, 20, 0)
Toxic        == MoveData("Toxic", "Poison", "Status", 0, 90, 10, 0)
LeechSeed    == MoveData("Leech Seed", "Grass", "Status", 0, 90, 10, 0)
Attract      == MoveData("Attract", "Normal", "Status", 0, 100, 15, 0)
ConfuseRay   == MoveData("Confuse Ray", "Ghost", "Status", 0, 100, 10, 0)
Swagger      == MoveData("Swagger", "Normal", "Status", 0, 85, 15, 0)
Taunt        == MoveData("Taunt", "Dark", "Status", 0, 100, 20, 0)
DoubleKick   == [MoveData("Double Kick", "Fighting", "Physical", 30, 100, 30, 0)
                    EXCEPT !.multihit = <<2, 2>>]
Outrage      == MoveData("Outrage", "Dragon", "Physical", 120, 100, 10, 0)
Wrap         == MoveData("Wrap", "Normal", "Physical", 15, 90, 20, 0)
Protect      == MoveData("Protect", "Normal", "Status", 0, NoAccuracy, 10, 4)
Roar         == MoveData("Roar", "Normal", "Status", 0, NoAccuracy, 20, 0 - 6)
\* CONFUSION_SELF_HIT_MOVE
CONFUSION_SELF_HIT_MOVE == MoveData("Confusion Self-Hit", "Typeless", "Physical", 40, 100, 0, 0)
Substitute   == MoveData("Substitute", "Normal", "Status", 0, 100, 10, 0)
BatonPass    == MoveData("Baton Pass", "Normal", "Status", 0, 100, 40, 0)
StealthRock  == MoveData("Stealth Rock", "Rock", "Status", 0, 100, 20, 0)
Spikes       == MoveData("Spikes", "Ground", "Status", 0, 100, 20, 0)
ToxicSpikes  == MoveData("Toxic Spikes", "Poison", "Status", 0, 100, 20, 0)
RapidSpin    == MoveData("Rapid Spin", "Normal", "Physical", 50, 100, 40, 0)
Defog        == MoveData("Defog", "Flying", "Status", 0, 100, 15, 0)
CourtChange  == MoveData("Court Change", "Normal", "Status", 0, 100, 10, 0)
Reflect      == MoveData("Reflect", "Psychic", "Status", 0, NoAccuracy, 20, 0)
LightScreen  == MoveData("Light Screen", "Psychic", "Status", 0, NoAccuracy, 30, 0)
AuroraVeil   == MoveData("Aurora Veil", "Ice", "Status", 0, NoAccuracy, 20, 0)
Tailwind     == MoveData("Tailwind", "Flying", "Status", 0, NoAccuracy, 15, 0)
RainDance    == MoveData("Rain Dance", "Water", "Status", 0, NoAccuracy, 5, 0)
Sandstorm    == MoveData("Sandstorm", "Rock", "Status", 0, NoAccuracy, 10, 0)
GrassyTerrain == MoveData("Grassy Terrain", "Grass", "Status", 0, NoAccuracy, 10, 0)
PoisonPowder == MoveData("Poison Powder", "Poison", "Status", 0, 75, 35, 0)
SeismicToss  == MoveData("Seismic Toss", "Fighting", "Physical", 1, 100, 20, 0)

(***************************************************************************)
(* damage.py                                                               *)
(***************************************************************************)
\* TYPE_CHART[att][def] as a rational, for the types of the teams' moves
\* (rows) and of the teams' combatants (columns); a missing entry is 1.0
TYPE_CHART(att, def) ==
    CASE att = "Normal" /\ def \in {"Rock", "Steel"} -> <<1, 2>>
      [] att = "Normal" /\ def = "Ghost" -> <<0, 1>>
      [] att = "Fighting" /\ def \in {"Normal", "Ice", "Rock", "Dark", "Steel"} -> <<2, 1>>
      [] att = "Fighting" /\ def \in {"Poison", "Flying", "Psychic", "Bug", "Fairy"} -> <<1, 2>>
      [] att = "Fighting" /\ def = "Ghost" -> <<0, 1>>
      [] att = "Fire" /\ def \in {"Fire", "Water", "Rock", "Dragon"} -> <<1, 2>>
      [] att = "Fire" /\ def \in {"Grass", "Ice", "Bug", "Steel"} -> <<2, 1>>
      [] att = "Flying" /\ def \in {"Grass", "Fighting", "Bug"} -> <<2, 1>>
      [] att = "Flying" /\ def \in {"Electric", "Rock", "Steel"} -> <<1, 2>>
      [] att = "Rock" /\ def \in {"Fire", "Ice", "Flying", "Bug"} -> <<2, 1>>
      [] att = "Rock" /\ def \in {"Fighting", "Ground", "Steel"} -> <<1, 2>>
      [] att = "Steel" /\ def \in {"Rock", "Ice", "Fairy"} -> <<2, 1>>
      [] att = "Steel" /\ def \in {"Fire", "Water", "Electric", "Steel"} -> <<1, 2>>
      [] OTHER -> ROne

\* type_effectiveness: the product over the target's types ("Typeless" has no row)
type_effectiveness(move_type, target_types, fld) ==
    LET e1 == IF Len(target_types) >= 1 THEN TYPE_CHART(move_type, target_types[1]) ELSE ROne
        e2 == IF Len(target_types) >= 2 THEN TYPE_CHART(move_type, target_types[2]) ELSE ROne
        misty == IF fld.terrain = "Misty" /\ move_type = "Dragon" THEN <<1, 2>> ELSE ROne
    IN RMul(RMul(e1, e2), misty)


\* base_power of calculate_damage: the move's power after the weather
weather_power(move, fld) ==
    IF fld.weather = "Rain" /\ move.type = "Water" THEN FloorDiv(move.power * 3, 2)
    ELSE IF fld.weather = "Rain" /\ move.type = "Fire" THEN FloorDiv(move.power, 2)
    ELSE IF fld.weather = "Sun" /\ move.type = "Fire" THEN FloorDiv(move.power * 3, 2)
    ELSE IF fld.weather = "Sun" /\ move.type = "Water" THEN FloorDiv(move.power, 2)
    ELSE move.power

\* the moves whose damage calculate_damage fixes at the attacker's level
LevelDamageMoves == {"Seismic Toss", "Night Shade"}

\* the Disguise branch of calculate_damage (lines 63-70): is this call answered
\* by the defender's intact disguise
disguise_blocks(defender, move) ==
    /\ ~(move.power = 0 /\ move.category = "Status")
    /\ defender.ability = "Disguise"
    /\ ~defender.volatiles.disguise_busted
    /\ move.category # "Status"
    /\ move.power > 0

\* the defender as a call of calculate_damage leaves it:
\* defender.volatiles["disguise_busted"] = True (line 69)
after_calculate_damage(defender, move) ==
    IF disguise_blocks(defender, move)
    THEN [defender EXCEPT !.volatiles.disguise_busted = TRUE]
    ELSE defender

\* calculate_damage: the (min, max) of one non-critical hit; what the call
\* writes to the defender is after_calculate_damage.  The branches for
\* move names outside the teams' moves (the other fixed-damage moves, the OHKO
\* moves, Foul Play, Psyshock, Body Press, Facade, Earthquake) are not taken
\* by any move of the teams.  targets is always 1.
calculate_damage(attacker, defender, move, fld, attacker_side_idx, defender_side_idx) ==
    IF move.power = 0 /\ move.category = "Status" THEN <<0, 0>>
    ELSE IF disguise_blocks(defender, move) THEN <<0, 0>>
    ELSE IF move.name \in LevelDamageMoves THEN <<attacker.level, attacker.level>>
    ELSE IF move.category \notin {"Physical", "Special"} THEN <<0, 0>>
    ELSE
    With(calc_stat(attacker, IF move.category = "Physical" THEN "Atk" ELSE "SpA"), LAMBDA A0 :
    With(calc_stat(defender, IF move.category = "Physical" THEN "Def" ELSE "SpD"), LAMBDA D0 :
    With(IF move.category = "Physical" /\ attacker.status = "brn" /\ attacker.ability # "Guts"
         THEN Max(1, FloorDiv(A0, 2)) ELSE A0, LAMBDA A1 :
    With(IF move.category = "Physical" /\ attacker.ability = "Guts" /\ attacker.status # NoStatus
         THEN FloorDiv(A1 * 3, 2) ELSE A1, LAMBDA A2 :
    With(IF move.category = "Special" /\ attacker.ability = "Solar Power" /\ fld.weather = "Sun"
         THEN FloorDiv(A2 * 3, 2) ELSE A2, LAMBDA A :
    With(IF move.category = "Special" /\ fld.weather = "Sandstorm" /\ Contains(defender.types, "Rock")
         THEN FloorDiv(D0 * 3, 2) ELSE D0, LAMBDA D1 :
    With(IF move.target_def_halved THEN Max(1, FloorDiv(D1, 2)) ELSE D1, LAMBDA D :
    With(type_effectiveness(move.type, defender.types, fld), LAMBDA effectiveness :
    LET base_power == weather_power(move, fld)
        level == attacker.level
        base_damage == Max(1, FloorDiv(FloorDiv((FloorDiv(2 * level, 5) + 2) * A * base_power, D), 50) + 2)
        stab == IF Contains(attacker.types, move.type)
                THEN (IF attacker.ability = "Adaptability" THEN <<2, 1>> ELSE <<3, 2>>)
                ELSE ROne
        terrain_boost ==
            IF fld.terrain # "None" /\ is_grounded(attacker)
               /\ \/ (fld.terrain = "Electric" /\ move.type = "Electric")
                  \/ (fld.terrain = "Grassy" /\ move.type = "Grass")
                  \/ (fld.terrain = "Psychic" /\ move.type = "Psychic")
            THEN <<3, 2>> ELSE ROne
        reduction == IF fld.game_type = "Doubles" THEN <<2, 3>> ELSE <<1, 2>>
        idx == Max(0, Min(1, defender_side_idx))
        screen_modifier ==
            IF attacker.ability = "Infiltrator" THEN ROne
            ELSE IF fld.aurora_veil[idx] THEN reduction
            ELSE IF move.category = "Physical" /\ fld.reflect[idx] THEN reduction
            ELSE IF move.category = "Special" /\ fld.light_screen[idx] THEN reduction
            ELSE ROne
        am1 == IF defender.ability \in {"Solid Rock", "Filter", "Prism Armor"}
                  /\ effectiveness[1] > effectiveness[2] THEN <<3, 4>> ELSE ROne
        am2 == IF defender.ability = "Friend Guard" THEN <<3, 4>> ELSE ROne
        am3 == IF attacker.ability = "Tinted Lens" /\ effectiveness[1] < effectiveness[2]
               THEN <<2, 1>> ELSE ROne
        am4 == IF attacker.ability = "Technician" /\ base_power <= 60 THEN <<3, 2>> ELSE ROne
        am5 == IF attacker.ability = "Sheer Force" /\ move.effect_chance > 0 THEN <<13, 10>> ELSE ROne
        ability_mod == RMul(RMul(am1, am2), RMul(am3, RMul(am4, am5)))
        im1 == IF attacker.item = "Life Orb" THEN <<13, 10>> ELSE ROne
        im2 == IF attacker.item = "Expert Belt" /\ effectiveness[1] > effectiveness[2]
               THEN <<6, 5>> ELSE ROne
        im3 == IF attacker.item = "Muscle Band" /\ move.category = "Physical" THEN <<11, 10>> ELSE ROne
        im4 == IF attacker.item = "Wise Glasses" /\ move.category = "Special" THEN <<11, 10>> ELSE ROne
        item_mod == RMul(RMul(im1, im2), RMul(im3, im4))
    IN IF effectiveness[1] = 0 THEN <<0, 0>>
       ELSE With(base_damage, LAMBDA bd :
            With(RMul(RMul(RMul(stab, effectiveness), RMul(terrain_boost, screen_modifier)),
                      RMul(ability_mod, item_mod)), LAMBDA modifier :
            <<FloorDiv(bd * modifier[1] * 85, modifier[2] * 100),
              FloorDiv(bd * modifier[1], modifier[2])>>))))))))))


(***************************************************************************)
(* state.py: status and stat stages.  A combatant is named by its key      *)
(* <<side, slot>>; ms is the map of all combatants.                        *)
(***************************************************************************)
NoKey == <<NoSide, 0>>     \* Optional[PokemonState] None

\* PokemonState.cure_status
cure_status(mon) ==
    [mon EXCEPT !.status = NoStatus,
                !.toxic_counter = IF mon.status \in {"tox", "psn"} THEN 0 ELSE @]

\* PokemonState.apply_status (the teams' moves inflict par, psn, tox and brn only)
apply_status(mon, status) ==
    IF mon.status # NoStatus THEN mon
    ELSE LET m1 == [mon EXCEPT !.toxic_counter = IF status = "tox" THEN 1
                                                  ELSE IF status = "psn" THEN 0 ELSE @,
                               !.status = status]
         IN IF m1.item = "Lum Berry" THEN [cure_status(m1) EXCEPT !.item = NoItem] ELSE m1

\* PokemonState._handle_stat_drop_reactions.  The two inner change_stat_stage
\* calls raise by 2 with source=self, allow_contrary=False; a Defiant or
\* Competitive holder is not Simple, so each is a clamped +2.
handle_stat_drop_reactions(mon, from_opponent) ==
    With(IF from_opponent /\ mon.item = "Eject Pack"
         THEN [mon EXCEPT !.volatiles.eject_pack_trigger = TRUE] ELSE mon, LAMBDA m1 :
    With(IF m1.item = "White Herb"
         THEN [clear_negative_stages(m1) EXCEPT !.item = NoItem] ELSE m1, LAMBDA m2 :
    With(IF from_opponent /\ m2.ability = "Defiant"
         THEN set_stage_value(m2, "Atk", get_stage_value(m2, "Atk") + 2) ELSE m2, LAMBDA m3 :
    IF from_opponent /\ m3.ability = "Competitive"
    THEN set_stage_value(m3, "SpA", get_stage_value(m3, "SpA") + 2) ELSE m3)))

\* the keyword arguments of change_stat_stage, with the code's defaults
StageOpts == [from_opponent |-> FALSE, ignore_blockers |-> FALSE, allow_contrary |-> TRUE,
              allow_simple |-> TRUE, intimidate |-> FALSE, via_mirror_armor |-> FALSE]

\* a Simple that doubles rises only, to compare stage_delta with
stage_delta_rises_only(mon, stages, opts) ==
    LET d1 == IF opts.allow_simple /\ mon.ability = "Simple" /\ stages > 0 THEN stages * 2 ELSE stages
    IN IF opts.allow_contrary /\ mon.ability = "Contrary" THEN 0 - d1 ELSE d1

\* the stage delta after Simple and Contrary
stage_delta(mon, stages, opts) ==
    LET d1 == IF opts.allow_simple /\ mon.ability = "Simple" THEN stages * 2 ELSE stages
    IN IF opts.allow_contrary /\ mon.ability = "Contrary" THEN 0 - d1 ELSE d1

\* PokemonState.change_stat_stage(self = ms[who], stat, stages, source=..., **opts)
RECURSIVE change_stat_stage(_, _, _, _, _, _)
change_stat_stage(ms, who, stat, stages, source, opts) ==
    LET self == ms[who]
        delta == stage_delta(self, stages, opts)
        opponent_effect == opts.from_opponent \/ (source # NoKey /\ source # who)
        blocked ==
            /\ delta < 0
            /\ \/ opts.intimidate /\ self.ability \in {"Own Tempo", "Oblivious", "Scrappy", "Inner Focus"}
               \/ /\ ~opts.ignore_blockers
                  /\ opponent_effect
                  /\ \/ self.ability \in {"Clear Body", "White Smoke", "Full Metal Body"}
                     \/ self.ability = "Hyper Cutter" /\ stat = "Atk"
                     \/ self.ability = "Keen Eye" /\ stat = "Acc"
                     \/ self.item = "Clear Amulet"
        reflected ==
            /\ delta < 0
            /\ opponent_effect
            /\ self.ability = "Mirror Armor"
            /\ source # NoKey
            /\ source # who
            /\ ~opts.via_mirror_armor
        current == get_stage_value(self, stat)
        new_stage == clamp_stage(current + delta)
        set == set_stage_value(self, stat, new_stage)
    IN IF stages = 0 THEN ms
       ELSE IF blocked THEN ms
       ELSE IF reflected
            THEN change_stat_stage(ms, source, stat, stages, who,
                                   [opts EXCEPT !.from_opponent = TRUE, !.ignore_blockers = FALSE,
                                                !.via_mirror_armor = TRUE])
       ELSE IF new_stage = current THEN ms
       ELSE IF new_stage < current
            THEN [ms EXCEPT ![who] = handle_stat_drop_reactions(set, opponent_effect)]
       ELSE [ms EXCEPT ![who] = set]


(***************************************************************************)
(* env.py: BattleEnv.  b is the BattleEnv in the middle of a handler:      *)
(*   b.mons, b.active, b.field       self.state                            *)
(*   b.done, b.winner                self.done, self.winner                *)
(*   b.skip, b.acted                 self._turn_skip_action / _has_acted   *)
(*   b.rnd                           the values the random.* calls of this *)
(*                                   handler return                        *)
(*   b.log                           the events of the turn so far         *)
(* Two combatants of a party are never equal field by field (the teams     *)
(* have distinct species), so the code's `mon in side.active` is identity. *)
(***************************************************************************)
Key(side, slot) == <<side, slot>>
ActiveKey(b, side) == Key(side, b.active[side])
ActiveMon(b, side) == b.mons[ActiveKey(b, side)]
PartySlots(ms, side) == {k[2] : k \in {kk \in DOMAIN ms : kk[1] = side}}

RECURSIVE SortedSeq(_)
SortedSeq(S) ==
    IF S = {} THEN <<>>
    ELSE LET lo == CHOOSE x \in S : \A y \in S : x <= y
         IN <<lo>> \o SortedSeq(S \ {lo})

\* a bench that fainted members stay on, to compare Bench with
Bench_with_fainted(b, side) ==
    SortedSeq({i \in PartySlots(b.mons, side) : i # b.active[side]})

\* [m for m in side.party if m.current_hp > 0 and m not in side.active]
Bench(b, side) ==
    SortedSeq({i \in PartySlots(b.mons, side) :
                  b.mons[Key(side, i)].current_hp > 0 /\ i # b.active[side]})

Logged(b, ev) == [b EXCEPT !.log = Append(@, ev)]

\* BattleEnv._active_index
active_index(b, key) == IF b.active[key[1]] = key[2] THEN key[1] ELSE NoSide

PINCH_BERRIES == {"Figy Berry", "Wiki Berry", "Mago Berry", "Aguav Berry", "Iapapa Berry"}

\* a pinch berry eaten at half of max HP, to compare pinch_threshold with
pinch_threshold_half(hp_max) == FloorDiv(hp_max, 2)

\* mon.max_hp // 4 of _check_hp_items: the HP at or under which a pinch berry is eaten
pinch_threshold(hp_max) == FloorDiv(hp_max, 4)

\* BattleEnv._check_hp_items
check_hp_items(mon) ==
    IF mon.current_hp <= 0 \/ mon.item = NoItem THEN mon
    ELSE With(max_hp(mon), LAMBDA hp_max :
    IF mon.item = "Sitrus Berry" /\ mon.current_hp <= FloorDiv(hp_max, 2)
         THEN [mon EXCEPT !.current_hp = Min(hp_max, @ + Max(1, FloorDiv(hp_max, 4))),
                          !.item = NoItem]
    ELSE IF mon.item \in PINCH_BERRIES /\ mon.current_hp <= pinch_threshold(hp_max)
         THEN [mon EXCEPT !.current_hp = Min(hp_max, @ + Max(1, FloorDiv(hp_max, 2))),
                          !.item = NoItem]
    ELSE mon)

\* a subtraction without the floor at 0, to compare new_hp_after_damage with
new_hp_unfloored(mon, amount) == mon.current_hp - amount

\* the hit points _deal_damage takes off the target
new_hp_after_damage(mon, amount) == Max(0, mon.current_hp - amount)

\* the winner _handle_faint declares when side_idx has lost
winner_when_lost(side_idx) == 1 - side_idx

\* does _handle_faint look for a replacement on this side before ending the battle
faint_checks_bench(side_idx) == side_idx # 0

RECURSIVE deal_damage(_, _, _), handle_faint(_, _), force_switch(_, _, _, _),
          on_switch_in(_, _, _), apply_entry_hazards(_, _, _), apply_intimidate(_, _),
          handle_eject_pack_trigger(_, _, _)

\* BattleEnv._deal_damage(target = b.mons[key], amount); its return value is dealt_amount
deal_damage(b, key, amount) ==
    IF amount <= 0 \/ b.mons[key].current_hp <= 0 THEN b
    ELSE LET hit == [b.mons[key] EXCEPT !.current_hp = new_hp_after_damage(b.mons[key], amount)]
         IN With([b EXCEPT !.mons[key] = check_hp_items(hit)], LAMBDA b1 :
            IF b1.mons[key].current_hp = 0
            THEN handle_faint(Logged(b1, <<"faint", key[1], key[2]>>), active_index(b1, key))
            ELSE b1)

dealt_amount(b, key, amount) ==
    IF amount <= 0 \/ b.mons[key].current_hp <= 0 THEN 0 ELSE amount

\* a faint that nothing reacts to, to compare handle_faint with
handle_faint_ignored(b, side_idx) == b

\* BattleEnv._handle_faint
handle_faint(b, side_idx) ==
    IF side_idx = NoSide \/ b.done THEN b
    ELSE IF ActiveMon(b, side_idx).current_hp > 0 THEN b
    ELSE IF ~faint_checks_bench(side_idx) \/ Bench(b, side_idx) = <<>>
         THEN Logged([b EXCEPT !.done = TRUE, !.winner = winner_when_lost(side_idx)],
                     <<"end", side_idx, 0>>)
    ELSE force_switch(b, side_idx, FALSE, TRUE)

\* a _force_switch that never cancels a queued action, to compare marks_skip with
marks_skip_never(skip_action_if_pending, has_acted) == FALSE

\* does _force_switch cancel the queued action of the side it switches
marks_skip(skip_action_if_pending, has_acted) == skip_action_if_pending /\ ~has_acted

\* BattleEnv._force_switch; random.choice(bench) is bench[b.rnd.pick]
force_switch(b, side_idx, random_choice, skip_action_if_pending) ==
    With(Bench(b, side_idx), LAMBDA bench :
       IF bench = <<>> THEN b
       ELSE With(IF random_choice THEN bench[Min(b.rnd.pick, Len(bench))] ELSE bench[1],
                 LAMBDA replacement :
            With(on_switch_in(Logged([b EXCEPT !.active[side_idx] = replacement],
                                     <<"switch_in", side_idx, replacement>>),
                              side_idx, Key(side_idx, replacement)), LAMBDA b2 :
            IF marks_skip(skip_action_if_pending, b2.acted[side_idx])
            THEN [b2 EXCEPT !.skip[side_idx] = TRUE]
            ELSE b2)))

switched(b, side_idx) == Bench(b, side_idx) # <<>>

\* the volatiles _on_switch_in pops (those of them the model holds)
SwitchInCleared(v) ==
    [v EXCEPT !.leech_seed = NoSide, !.focus_energy = FALSE, !.confusion_turns = 0,
              !.infatuated_with = NoSide, !.protect_active = FALSE, !.protect_streak = 0,
              !.taunt_turns = 0, !.partial_trap = 0, !.locked_move = NoMove,
              !.locked_turns = 0]

\* BattleEnv._on_switch_in (no combatant of the teams is asleep)
on_switch_in(b, side_idx, key) ==
    LET mon == b.mons[key]
        f1 == CASE mon.ability = "Drizzle" -> [b.field EXCEPT !.weather = "Rain", !.weather_turns = 0]
                [] mon.ability = "Drought" -> [b.field EXCEPT !.weather = "Sun", !.weather_turns = 0]
                [] mon.ability = "Sand Stream" -> [b.field EXCEPT !.weather = "Sandstorm", !.weather_turns = 0]
                [] mon.ability = "Snow Warning" -> [b.field EXCEPT !.weather = "Hail", !.weather_turns = 0]
                [] OTHER -> b.field
        m1 == [mon EXCEPT !.volatiles = SwitchInCleared(@),
                          !.substitute_hp = NoSub,
                          !.last_move_used = NoMove,
                          !.toxic_counter = IF mon.status = "tox"
                                            THEN Max(1, IF @ = 0 THEN 1 ELSE @) ELSE @]
    IN With([b EXCEPT !.field = f1, !.mons[key] = m1], LAMBDA b1 :
       With(IF b1.mons[key].current_hp > 0 THEN apply_entry_hazards(b1, side_idx, key) ELSE b1,
            LAMBDA b2 :
       IF b2.mons[key].current_hp > 0 /\ b2.mons[key].ability = "Intimidate"
       THEN apply_intimidate(b2, side_idx)
       ELSE b2))

\* BattleEnv._apply_entry_hazards (no steelsurge: no move of the teams sets it)
apply_entry_hazards(b, side_idx, key) ==
    LET mon0 == b.mons[key]
        hazard_blocked == mon0.item = "Heavy-Duty Boots"
        grounded == is_grounded(mon0)
        magic_guard == mon0.ability = "Magic Guard"
    IN With(type_effectiveness("Rock", mon0.types, b.field), LAMBDA eff :
       With(b.field.stealth_rocks[side_idx] /\ ~hazard_blocked /\ eff[1] > 0 /\ ~magic_guard,
            LAMBDA rock_hit :
       With(IF rock_hit
            THEN deal_damage(b, key, Max(1, FloorDiv(max_hp(mon0) * eff[1], 8 * eff[2])))
            ELSE b, LAMBDA b1 :
       IF rock_hit /\ b1.done THEN b1
       ELSE
       With(b1.field.spikes[side_idx], LAMBDA spikes_layers :
       With(spikes_layers > 0 /\ grounded /\ ~hazard_blocked /\ ~magic_guard, LAMBDA spikes_hit :
       With(IF spikes_hit
            THEN deal_damage(b1, key, Max(1, FloorDiv(max_hp(mon0),
                                 CASE spikes_layers = 1 -> 8 [] spikes_layers = 2 -> 6
                                   [] spikes_layers = 3 -> 4 [] OTHER -> 8)))
            ELSE b1, LAMBDA b2 :
       IF spikes_hit /\ b2.done THEN b2
       ELSE
       With(b2.field.toxic_spikes[side_idx], LAMBDA tox_layers :
       With(b2.mons[key], LAMBDA mon2 :
       With(IF tox_layers > 0 /\ grounded /\ ~hazard_blocked
            THEN IF Contains(mon2.types, "Poison")
                 THEN [b2 EXCEPT !.field.toxic_spikes[side_idx] = 0]
                 ELSE IF Contains(mon2.types, "Steel") \/ mon2.status # NoStatus THEN b2
                 ELSE IF b2.field.terrain = "Misty" /\ grounded THEN b2
                 ELSE [b2 EXCEPT !.mons[key] =
                          apply_status(mon2, IF tox_layers = 1 THEN "psn" ELSE "tox")]
            ELSE b2, LAMBDA b3 :
       IF b3.field.sticky_web[side_idx] /\ grounded /\ ~hazard_blocked
       THEN [b3 EXCEPT !.mons = change_stat_stage(b3.mons, key, "Spe", 0 - 1, NoKey,
                                   [StageOpts EXCEPT !.from_opponent = TRUE])]
       ELSE b3)))))))))

\* does this change_stat_stage call lower the stage of ms[who] itself
lowers_own_stage(ms, who, stat, stages, source, opts) ==
    LET self == ms[who]
        delta == stage_delta(self, stages, opts)
        opponent_effect == opts.from_opponent \/ (source # NoKey /\ source # who)
    IN /\ stages # 0
       /\ delta < 0
       /\ ~(opts.intimidate /\ self.ability \in {"Own Tempo", "Oblivious", "Scrappy", "Inner Focus"})
       /\ ~(/\ ~opts.ignore_blockers
             /\ opponent_effect
             /\ \/ self.ability \in {"Clear Body", "White Smoke", "Full Metal Body"}
                \/ self.ability = "Hyper Cutter" /\ stat = "Atk"
                \/ self.ability = "Keen Eye" /\ stat = "Acc"
                \/ self.item = "Clear Amulet")
       /\ ~(opponent_effect /\ self.ability = "Mirror Armor" /\ source # NoKey /\ source # who
             /\ ~opts.via_mirror_armor)
       /\ clamp_stage(get_stage_value(self, stat) + delta) < get_stage_value(self, stat)

\* the keyword arguments of the change_stat_stage call of _apply_intimidate
IntimidateOpts == [StageOpts EXCEPT !.from_opponent = TRUE, !.intimidate = TRUE]

\* BattleEnv._apply_intimidate.  When the target's Attack is lowered the log
\* gets <<"intimidate", side, slot, what the target then holds>>.
apply_intimidate(b, side_idx) ==
    LET user == ActiveMon(b, side_idx)
        target_idx == 1 - side_idx
        target == ActiveMon(b, target_idx)
        lowered == lowers_own_stage(b.mons, ActiveKey(b, target_idx), "Atk", 0 - 1,
                                    ActiveKey(b, side_idx), IntimidateOpts)
        noted(b1) == IF lowered
                     THEN Logged(b1, <<"intimidate", target_idx, b.active[target_idx],
                                       [item |-> target.item,
                                        bench |-> Bench(b, target_idx) # <<>>,
                                        atk |-> get_stage_value(ActiveMon(b1, target_idx), "Atk")]>>)
                     ELSE b1
    IN IF user.current_hp <= 0 \/ user.ability # "Intimidate" THEN b
       ELSE IF target.current_hp <= 0 THEN b
       ELSE LET b1 == noted([b EXCEPT !.mons = change_stat_stage(b.mons, ActiveKey(b, target_idx),
                                                   "Atk", 0 - 1, ActiveKey(b, side_idx),
                                                   IntimidateOpts)])
                b2 == handle_eject_pack_trigger(b1, target_idx, "False")
            IN handle_eject_pack_trigger(b2, side_idx, "False")

\* an Eject Pack that stays with its holder, to compare eject_pack_used with
eject_pack_used_kept(mon) == mon

\* mon.item = None of _handle_eject_pack_trigger
eject_pack_used(mon) == [mon EXCEPT !.item = NoItem]

\* BattleEnv._handle_eject_pack_trigger; force_skip is "None", "True" or "False"
handle_eject_pack_trigger(b, side_idx, force_skip) ==
    LET key == ActiveKey(b, side_idx)
        mon == b.mons[key]
        popped == [b EXCEPT !.mons[key].volatiles.eject_pack_trigger = FALSE]
    IN IF mon.current_hp <= 0 THEN popped
       ELSE IF ~mon.volatiles.eject_pack_trigger THEN b
       ELSE IF mon.item # "Eject Pack" THEN popped
       ELSE LET skip == IF force_skip = "None" THEN ~b.acted[side_idx] ELSE force_skip = "True"
            IN force_switch([popped EXCEPT !.mons[key] = eject_pack_used(@)], side_idx, FALSE, skip)


(***************************************************************************)
(* ai_policy.py                                                            *)
(***************************************************************************)
NON_DAMAGE_MOVE_BASE == 6

\* score_move.  The AI's combatant is on side 1 and the defender on side 0
\* (_get_side_index); no move of the teams is one of the five high-critical
\* moves that draw a coin.
score_move(attacker, defender, move, fld) ==
    LET e1 == IF Len(defender.types) >= 1 THEN TYPE_CHART(move.type, defender.types[1]) ELSE ROne
        e2 == IF Len(defender.types) >= 2 THEN TYPE_CHART(move.type, defender.types[2]) ELSE ROne
        eff == RMul(e1, e2)
    IN IF move.category # "Status" /\ eff[1] = 0 THEN 0 - 10
       ELSE IF move.category = "Status" /\ move.name \in {"Thunder Wave", "Spore", "Will-O-Wisp"}
               /\ defender.status # NoStatus THEN 0 - 10
       ELSE
       With(calculate_damage(attacker, defender, move, fld, 1, 0)[2], LAMBDA max_dmg :
       With(calc_stat(attacker, "Spe"), LAMBDA atk_spe :
       With(calc_stat(defender, "Spe"), LAMBDA def_spe :
       LET will_ko == max_dmg >= defender.current_hp
           goes_first == IF move.priority # 0 \/ def_spe = atk_spe
                         THEN (move.priority > 0) \/ (move.priority = 0 /\ atk_spe >= def_spe)
                         ELSE atk_spe > def_spe
       IN With(IF move.category = "Status" THEN NON_DAMAGE_MOVE_BASE
               ELSE FloorDiv(max_dmg * 100, Max(1, defender.current_hp)), LAMBDA s0 :
          With(IF will_ko
               THEN s0 + (IF goes_first THEN 12 ELSE 9)
                       + (IF attacker.ability \in {"Moxie", "Beast Boost", "Chilling Neigh", "Grim Neigh"}
                          THEN 1 ELSE 0)
               ELSE s0, LAMBDA s1 :
          IF move.priority > 0 /\ 2 * attacker.current_hp < defender.current_hp /\ atk_spe < def_spe
          THEN s1 + 11 ELSE s1)))))

\* does score_move get to its call of calculate_damage (the returns of lines
\* 21-30 come before it)
score_reaches_damage(defender, move) ==
    LET e1 == IF Len(defender.types) >= 1 THEN TYPE_CHART(move.type, defender.types[1]) ELSE ROne
        e2 == IF Len(defender.types) >= 2 THEN TYPE_CHART(move.type, defender.types[2]) ELSE ROne
    IN /\ ~(move.category # "Status" /\ RMul(e1, e2)[1] = 0)
       /\ ~(move.category = "Status" /\ move.name \in {"Thunder Wave", "Spore", "Will-O-Wisp"}
            /\ defender.status # NoStatus)

\* the defender as the loop of choose_move leaves it after scoring the first n
\* moves
RECURSIVE scored_defender(_, _, _)
scored_defender(defender, moves, n) ==
    IF n = 0 THEN defender
    ELSE With(scored_defender(defender, moves, n - 1), LAMBDA d :
            IF score_reaches_damage(d, moves[n]) THEN after_calculate_damage(d, moves[n])
            ELSE d)

\* choose_move: the moves it can return (the single best move, or any of the
\* equal-top-scoring moves by random.choice); what it writes to the opponent
\* is scored_defender
choose_move(ai_mon, opp_mon, fld) ==
    LET moves == ai_mon.moves
    IN With([i \in 1..Len(moves) |->
                score_move(ai_mon, scored_defender(opp_mon, moves, i - 1), moves[i], fld)],
            LAMBDA move_scores :
       With(CHOOSE v \in {move_scores[i] : i \in 1..Len(moves)} :
                \A j \in 1..Len(moves) : move_scores[j] <= v, LAMBDA best_score :
       {moves[i] : i \in {j \in 1..Len(moves) : move_scores[j] = best_score}}))

\* best_damage: the larger maximum of calculate_damage over the moves that
\* have PP (its callers read the maximum only).  side_idx is the attacker's.
\* Its callers are reached from choose_ai_action only, where no combatant has
\* Disguise, so the calls write nothing.
best_damage(attacker, defender, moves, fld, side_idx) ==
    With({calculate_damage(attacker, defender, moves[i], fld, side_idx, 1 - side_idx)[2] :
             i \in {j \in 1..Len(moves) : moves[j].pp # 0}} \cup {0}, LAMBDA maxima :
       CHOOSE v \in maxima : \A w \in maxima : w <= v)

\* post_ko_switch_score for a candidate of the AI's side (side 1)
post_ko_switch_score(candidate, opp_mon, fld) ==
    With(Max(1, candidate.current_hp), LAMBDA cand_hp :
    With(Max(1, opp_mon.current_hp), LAMBDA opp_hp :
    With(best_damage(candidate, opp_mon, candidate.moves, fld, 1), LAMBDA cand_to_opp_max :
    With(best_damage(opp_mon, candidate, opp_mon.moves, fld, 0), LAMBDA opp_to_cand_max :
    With(calc_stat(candidate, "Spe"), LAMBDA cand_spe :
    With(calc_stat(opp_mon, "Spe"), LAMBDA opp_spe :
    LET cand_faster == cand_spe > opp_spe
        cand_slower == cand_spe < opp_spe
        cand_ohko == cand_to_opp_max >= opp_hp
        opp_ohko == opp_to_cand_max >= cand_hp
        cand_pct == FloorDiv(cand_to_opp_max * 100, opp_hp)
        opp_pct == FloorDiv(opp_to_cand_max * 100, cand_hp)
        score == IF cand_slower /\ opp_ohko THEN 0 - 1
                 ELSE IF cand_faster /\ cand_ohko THEN 5
                 ELSE IF cand_slower /\ cand_ohko /\ ~opp_ohko THEN 4
                 ELSE IF cand_faster /\ cand_pct > opp_pct THEN 3
                 ELSE IF cand_slower /\ cand_pct > opp_pct THEN 2
                 ELSE IF cand_faster THEN 1
                 ELSE 0
    IN With(IF candidate.species = "Ditto" THEN Max(score, 2) ELSE score, LAMBDA s1 :
       IF candidate.species \in {"Wynaut", "Wobbuffet"} /\ ~(cand_slower /\ opp_ohko)
       THEN Max(s1, 2) ELSE s1)))))))

\* choose_switch_in over a given list of candidates (slots of the AI's party):
\* the slots random.choice can return, {} for None
choose_switch_in(b, candidates) ==
    With([k \in candidates |-> post_ko_switch_score(b.mons[Key(1, k)], ActiveMon(b, 0), b.field)],
         LAMBDA scores :
       {k \in candidates : \A j \in candidates : scores[j] <= scores[k]})

\* an active combatant that switches at any HP, to compare too_hurt_to_switch with
too_hurt_never(mon) == FALSE

\* should_consider_switch: "Active must be at least 50% HP" (lines 204-205)
too_hurt_to_switch(mon) == mon.current_hp < FloorDiv(calc_stat(mon, "HP"), 2)

\* the slots of the AI's party that the loop of should_consider_switch does
\* not skip
switch_loop_slots(b) ==
    {k \in PartySlots(b.mons, 1) : k # b.active[1] /\ b.mons[Key(1, k)].current_hp > 0}

\* raw_fast of should_consider_switch for the slot k of the AI's party
raw_fast(b, k) == calc_stat(b.mons[Key(1, k)], "Spe") > calc_stat(ActiveMon(b, 0), "Spe")

\* a slot judged by its own speed alone, to compare considered_fast with
considered_fast_alone(b, k) == raw_fast(b, k)

\* considered_fast = raw_fast or found_faster at the slot k of the loop:
\* found_faster stays set once a slot of the loop was faster than the
\* opponent, so every later slot is considered fast as well
considered_fast(b, k) == \E j \in switch_loop_slots(b) : j <= k /\ raw_fast(b, j)

\* viable_candidates of should_consider_switch
viable_candidates(b) ==
    LET opp == ActiveMon(b, 0)
        viable(k) ==
            With(b.mons[Key(1, k)], LAMBDA mon :
            With(best_damage(opp, mon, opp.moves, b.field, 0), LAMBDA opp_to_mon_max :
            With(Max(1, mon.current_hp), LAMBDA mon_hp :
               \/ considered_fast(b, k) /\ opp_to_mon_max < mon_hp
               \/ ~considered_fast(b, k) /\ opp_to_mon_max * 2 < mon_hp)))
    IN {k \in switch_loop_slots(b) : viable(k)}

\* should_consider_switch: the slots it can return, {} for None.  The bench
\* count of its first lines compares combatants by value (m not in
\* ai_side.active on dataclasses); coin is random.random() < 0.5.
should_consider_switch(b, coin) ==
    LET ai_active == ActiveMon(b, 1)
        opp_active == ActiveMon(b, 0)
        bench == {k \in PartySlots(b.mons, 1) :
                     b.mons[Key(1, k)].current_hp > 0 /\ b.mons[Key(1, k)] # ai_active}
        best_move_score ==
            With({score_move(ai_active, opp_active, ai_active.moves[i], b.field) :
                     i \in 1..Len(ai_active.moves)} \cup {0 - 999}, LAMBDA scores :
               CHOOSE v \in scores : \A w \in scores : w <= v)
    IN IF bench = {} THEN {}
       ELSE IF best_move_score > 0 - 5 THEN {}
       ELSE IF too_hurt_to_switch(ai_active) THEN {}
       ELSE IF viable_candidates(b) = {} THEN {}
       ELSE IF ~coin THEN {}
       ELSE choose_switch_in(b, viable_candidates(b))

\* choose_ai_action: the (action type, move, target) results it can return,
\* with the switch target as a slot of the AI's party
choose_ai_action(b, coin) ==
    With(IF b.field.game_type = "Singles" THEN should_consider_switch(b, coin) ELSE {},
         LAMBDA switch_targets :
       IF switch_targets # {}
       THEN {[type |-> "switch", move |-> NoMove, target |-> k] : k \in switch_targets}
       ELSE {[type |-> "move", move |-> m.name, target |-> b.active[0]] :
                m \in choose_move(ActiveMon(b, 1), ActiveMon(b, 0), b.field)})

(***************************************************************************)
(* env.py: module-level functions                                          *)
(***************************************************************************)
\* get_effective_priority
get_effective_priority(attacker, move) ==
    IF attacker.ability = "Gale Wings" /\ move.type = "Flying" /\ move.category # "Status"
    THEN move.priority + 1 ELSE move.priority

\* an ordering by speed alone, to compare first_actor_choices with
first_actor_by_speed(p_priority, ai_priority, p_speed, ai_speed) ==
    IF p_speed = ai_speed THEN {0, 1}
    ELSE IF p_speed > ai_speed THEN {0} ELSE {1}

\* apply_turn's choice of first_actor: the side indexes it can be
first_actor_choices(p_priority, ai_priority, p_speed, ai_speed) ==
    IF p_priority # ai_priority
    THEN (IF p_priority > ai_priority THEN {0} ELSE {1})
    ELSE IF p_speed = ai_speed THEN {0, 1}
    ELSE IF p_speed > ai_speed THEN {0} ELSE {1}

\* get_effective_accuracy as a rational; <<0, 0>> is None (the roll is skipped)
get_effective_accuracy(attacker, defender, move, fld, moved_second) ==
    IF move.accuracy = NoAccuracy THEN <<0, 0>>
    ELSE IF attacker.ability = "No Guard" \/ defender.ability = "No Guard" THEN <<0, 0>>
    ELSE
    LET a1 == IF attacker.ability = "Compound Eyes" THEN <<13, 10>>
              ELSE IF attacker.ability = "Hustle" /\ move.category = "Physical" THEN <<4, 5>>
              ELSE ROne
        a2 == IF defender.ability \in {"Sand Veil", "Snow Cloak"}
                 /\ fld.weather \in {"Sandstorm", "Hail", "Snow"} THEN <<4, 5>> ELSE ROne
        a3 == IF defender.item \in {"Bright Powder", "Lax Incense"} THEN <<9, 10>> ELSE ROne
        a4 == IF attacker.item = "Wide Lens" THEN <<11, 10>>
              ELSE IF attacker.item = "Zoom Lens" /\ moved_second THEN <<6, 5>>
              ELSE ROne
        stage == Max(0 - 6, Min(6, attacker.accuracy_stage - defender.evasion_stage))
        a5 == IF stage > 0 THEN <<3 + stage, 3>>
              ELSE IF stage < 0 THEN <<3, 3 - stage>>
              ELSE ROne
    IN RMul(<<move.accuracy, 1>>, RMul(RMul(a1, a2), RMul(a3, RMul(a4, a5))))

\* can random.randint(1, 100) > int(effective_acc) be true: is int(acc) < 100
\* after the clamp to [1, 100]
can_miss(acc) == acc[2] # 0 /\ acc[1] < 100 * acc[2]

\* get_crit_stage and roll_crit: the set of values roll_crit can return
roll_crit(attacker, defender, move, force_crit) ==
    LET stage == Min(3, (IF attacker.ability = "Super Luck" THEN 1 ELSE 0)
                        + (IF attacker.volatiles.focus_energy THEN 2 ELSE 0)
                        + (IF attacker.item \in {"Scope Lens", "Razor Claw"} THEN 1 ELSE 0))
    IN IF move.category \notin {"Physical", "Special"} \/ move.power <= 0 THEN {FALSE}
       ELSE IF defender.ability \in {"Battle Armor", "Shell Armor", "Magma Armor"} THEN {FALSE}
       ELSE IF force_crit THEN {TRUE}
       ELSE IF attacker.ability = "Merciless" /\ defender.status \in {"psn", "tox"} THEN {TRUE}
       ELSE IF stage >= 3 THEN {TRUE}
       ELSE {TRUE, FALSE}

\* the stat stages calculate_damage sees during the critical recomputation
CritAttackerStages(st) ==
    [s \in StageStats |-> IF s \in {"Atk", "SpA"} /\ st[s] < 0 THEN 0 ELSE st[s]]
CritDefenderStages(st) ==
    [s \in StageStats |-> IF s \in {"Def", "SpD"} /\ st[s] > 0 THEN 0 ELSE st[s]]

\* compute_damage_for_hit: the (low, high) of its final random.randint, or
\* <<0, 0>> when it returns 0.  The stages and screens it overwrites for a
\* critical hit are restored before it returns; its second call of
\* calculate_damage, for a critical hit, meets the defender as the first call
\* left it.
damage_range_for_hit(attacker, defender, move, fld, attacker_side_idx, crit) ==
    LET defender_side_idx == 1 - attacker_side_idx
        plain == calculate_damage(attacker, defender, move, fld, attacker_side_idx, defender_side_idx)
        crit_fld == [fld EXCEPT !.reflect[defender_side_idx] = FALSE,
                                !.light_screen[defender_side_idx] = FALSE,
                                !.aurora_veil[defender_side_idx] = FALSE]
        recomputed == calculate_damage([attacker EXCEPT !.stat_stages = CritAttackerStages(@)],
                                       [after_calculate_damage(defender, move)
                                           EXCEPT !.stat_stages = CritDefenderStages(@)],
                                       move, crit_fld, attacker_side_idx, defender_side_idx)
        crit_mult == IF attacker.ability = "Sniper" THEN <<9, 4>> ELSE <<3, 2>>
        crit_scaled(r) == <<FloorDiv(r[1] * crit_mult[1], crit_mult[2]),
                            FloorDiv(r[2] * crit_mult[1], crit_mult[2])>>
    IN IF move.category = "Status" \/ move.power <= 0 THEN <<0, 0>>
       ELSE IF move.name \in LevelDamageMoves THEN <<plain[1], plain[1]>>
       ELSE With(IF crit THEN crit_scaled(recomputed) ELSE plain, LAMBDA d :
            With(Max(d[1], d[2]), LAMBDA hi :
            IF hi <= 0 THEN <<0, 0>>
            ELSE <<Max(1, Min(d[1], d[2])), hi>>))


(***************************************************************************)
(* move_effects.py                                                         *)
(***************************************************************************)
\* _apply_status: Misty Terrain protects a grounded target
apply_status_effect(b, key, status) ==
    IF is_grounded(b.mons[key]) /\ b.field.terrain = "Misty" THEN b
    ELSE [b EXCEPT !.mons[key] = apply_status(@, status)]

\* a Spikes count without its cap, to compare spikes_layers_after with
spikes_layers_uncapped(layers) == layers + 1

\* min(3, state.field.spikes[idx] + 1) of _apply_hazard
spikes_layers_after(layers) == Min(3, layers + 1)

\* _apply_hazard with target foe_side
apply_hazard(fld, actor_side_idx, hazard) ==
    LET idx == 1 - actor_side_idx
    IN CASE hazard = "stealth_rock" -> [fld EXCEPT !.stealth_rocks[idx] = TRUE]
         [] hazard = "spikes" -> [fld EXCEPT !.spikes[idx] = spikes_layers_after(@)]
         [] hazard = "toxic_spikes" -> [fld EXCEPT !.toxic_spikes[idx] = Min(2, @ + 1)]
         [] hazard = "sticky_web" -> [fld EXCEPT !.sticky_web[idx] = TRUE]
         [] OTHER -> fld

\* _apply_side_condition: its first read of the effect is spec.side_condition,
\* an attribute EffectSpec (lines 30-41) does not have (the MOVE_EFFECTS
\* entries give condition=...), so the call raises AttributeError before it
\* has written anything
apply_side_condition(b, actor_side_idx, condition, duration, source) ==
    [b EXCEPT !.raised = TRUE]

\* _apply_weather: spec.weather is no attribute of EffectSpec either
apply_weather(b, condition) == [b EXCEPT !.raised = TRUE]

\* move_effects._apply_phaze reads side.bench, an attribute SideState does not
\* have: the call raises AttributeError
apply_phaze(b, actor_side_idx) == [b EXCEPT !.raised = TRUE]

\* apply_effects_for_move(state, attacker, defender, move_name, actor_side_idx,
\* success=True) for the MOVE_EFFECTS entries of the teams' moves; a move
\* without an entry has no effect here.  _apply_stat_stage passes
\* source=attacker and from_opponent = (source is not pokemon).
apply_effects_for_move(b, attacker, defender, move_name, actor_side_idx) ==
    CASE move_name = "Swords Dance" ->
           [b EXCEPT !.mons = change_stat_stage(b.mons, attacker, "Atk", 2, attacker, StageOpts)]
      [] move_name = "Growl" ->
           [b EXCEPT !.mons = change_stat_stage(b.mons, defender, "Atk", 0 - 1, attacker,
                                  [StageOpts EXCEPT !.from_opponent = attacker # defender])]
      [] move_name = "Screech" ->
           [b EXCEPT !.mons = change_stat_stage(b.mons, defender, "Def", 0 - 2, attacker,
                                  [StageOpts EXCEPT !.from_opponent = attacker # defender])]
      [] move_name = "Thunder Wave" -> apply_status_effect(b, defender, "par")
      [] move_name = "Toxic" -> apply_status_effect(b, defender, "tox")
      [] move_name = "Poison Powder" -> apply_status_effect(b, defender, "psn")
      [] move_name = "Stealth Rock" ->
           [b EXCEPT !.field = apply_hazard(b.field, actor_side_idx, "stealth_rock")]
      [] move_name = "Spikes" ->
           [b EXCEPT !.field = apply_hazard(b.field, actor_side_idx, "spikes")]
      [] move_name = "Toxic Spikes" ->
           [b EXCEPT !.field = apply_hazard(b.field, actor_side_idx, "toxic_spikes")]
      [] move_name = "Reflect" -> apply_side_condition(b, actor_side_idx, "reflect", 5, attacker)
      [] move_name = "Light Screen" ->
           apply_side_condition(b, actor_side_idx, "light_screen", 5, attacker)
      [] move_name = "Aurora Veil" ->
           apply_side_condition(b, actor_side_idx, "aurora_veil", 5, attacker)
      [] move_name = "Tailwind" -> apply_side_condition(b, actor_side_idx, "tailwind", 4, attacker)
      [] move_name = "Roar" -> apply_phaze(b, actor_side_idx)
      [] move_name = "Rain Dance" -> apply_weather(b, "Rain")
      [] move_name = "Sandstorm" -> apply_weather(b, "Sand")
      \* kind="terrain" (Grassy Terrain, ...) has no branch in apply_effects_for_move
      [] OTHER -> b

\* BattleEnv._clear_hazards_from_side (the field holds no steelsurge: no move
\* of the teams sets it)
clear_hazards_from_side(fld, side_idx) ==
    [fld EXCEPT !.spikes[side_idx] = 0, !.toxic_spikes[side_idx] = 0,
                !.stealth_rocks[side_idx] = FALSE, !.sticky_web[side_idx] = FALSE]

\* BattleEnv._clear_screens_from_side
clear_screens_from_side(fld, side_idx) ==
    [fld EXCEPT !.reflect[side_idx] = FALSE, !.reflect_turns[side_idx] = 0,
                !.light_screen[side_idx] = FALSE, !.light_screen_turns[side_idx] = 0,
                !.aurora_veil[side_idx] = FALSE, !.aurora_veil_turns[side_idx] = 0]

\* arr[0], arr[1] = arr[1], arr[0]
swapped(arr) == [i \in Sides |-> arr[1 - i]]

\* BattleEnv._swap_side_conditions (the field holds no steelsurge and no G-Max
\* residual)
swap_side_conditions(fld) ==
    [fld EXCEPT !.spikes = swapped(@), !.toxic_spikes = swapped(@),
                !.stealth_rocks = swapped(@), !.sticky_web = swapped(@),
                !.reflect = swapped(@), !.light_screen = swapped(@),
                !.aurora_veil = swapped(@), !.tailwind = swapped(@),
                !.tailwind_turns = swapped(@), !.reflect_turns = swapped(@),
                !.light_screen_turns = swapped(@), !.aurora_veil_turns = swapped(@)]

\* BattleEnv._handle_special_move_followups (no move of the teams is a G-Max
\* move); _remove_user_bindings pops leech_seed and partial_trap (no
\* combatant is salt-cured)
handle_special_move_followups(b, attacker, move, actor_idx, target_idx, move_landed, total_damage) ==
    IF b.done THEN b
    ELSE IF move.name = "Rapid Spin" /\ move_landed /\ total_damage > 0
         THEN With([b EXCEPT !.mons[attacker].volatiles.leech_seed = NoSide,
                             !.mons[attacker].volatiles.partial_trap = 0,
                             !.field = clear_hazards_from_side(@, actor_idx)], LAMBDA b1 :
              [b1 EXCEPT !.mons = change_stat_stage(b1.mons, attacker, "Spe", 1, attacker,
                                      [StageOpts EXCEPT !.ignore_blockers = TRUE])])
    ELSE IF move.name = "Defog" /\ move_landed
         THEN [b EXCEPT !.field = clear_screens_from_side(clear_hazards_from_side(@, target_idx),
                                                          target_idx)]
    ELSE IF move.name = "Court Change" /\ move_landed
         THEN [b EXCEPT !.field = swap_side_conditions(@)]
    ELSE b

(***************************************************************************)
(* env.py: the parts of one action of apply_turn                           *)
(***************************************************************************)
\* BattleEnv._use_substitute
use_substitute(mon) ==
    With(FloorDiv(max_hp(mon), 4), LAMBDA hp_cost :
       IF mon.substitute_hp # NoSub THEN mon
       ELSE IF hp_cost <= 0 \/ mon.current_hp <= hp_cost THEN mon
       ELSE [mon EXCEPT !.current_hp = @ - hp_cost, !.substitute_hp = hp_cost])

\* the moves of the teams in RAMPAGE_MOVES, PARTIAL_TRAP_MOVES, PROTECT_MOVES, PHASING_MOVES,
\* CONFUSION_STATUS_MOVES
RAMPAGE_MOVES == {"Outrage"}
PARTIAL_TRAP_MOVES == {"Wrap"}
PROTECT_MOVES == {"Protect"}
PHASING_MOVES == {"Roar"}
CONFUSION_STATUS_MOVES == {"Confuse Ray", "Swagger"}

\* BattleEnv._attempt_protect; random.random() > success_chance is ~b.rnd.protect
\* (it cannot be when the streak is 0: the chance is then 1.0)
attempt_protect(b, mon) ==
    LET streak == b.mons[mon].volatiles.protect_streak
    IN IF streak > 0 /\ ~b.rnd.protect THEN b
       ELSE [b EXCEPT !.mons[mon].volatiles.protect_active = TRUE,
                      !.mons[mon].volatiles.protect_streak = streak + 1]

\* BattleEnv._reset_protect_counter
reset_protect_counter(b, mon, move_name) ==
    IF move_name \in PROTECT_MOVES THEN b
    ELSE [b EXCEPT !.mons[mon].volatiles.protect_streak = 0]

\* the guard of the defender-directed branches of _handle_custom_status_move
open_to_volatile(defender) ==
    defender.substitute_hp = NoSub /\ ~defender.volatiles.protect_active

\* is the move one that _handle_custom_status_move handles (returns True for)
custom_handled(move, move_landed) ==
    \/ move.name \in PROTECT_MOVES \cup {"Focus Energy", "Substitute"}
    \/ move_landed /\ move.name \in {"Taunt", "Attract", "Leech Seed"} \cup CONFUSION_STATUS_MOVES

\* BattleEnv._handle_custom_status_move; random.randint(2, 5) of
\* _apply_confusion is b.rnd.confturns
handle_custom_status_move(b, attacker, defender, move, actor_idx, move_landed) ==
    CASE move.name \in PROTECT_MOVES -> attempt_protect(b, attacker)
      [] move.name = "Focus Energy" -> [b EXCEPT !.mons[attacker].volatiles.focus_energy = TRUE]
      [] move.name = "Substitute" -> [b EXCEPT !.mons[attacker] = use_substitute(@)]
      [] move.name = "Taunt" /\ move_landed ->
           IF open_to_volatile(b.mons[defender])
           THEN [b EXCEPT !.mons[defender].volatiles.taunt_turns = 3]
           ELSE b
      [] move.name = "Attract" /\ move_landed ->
           IF open_to_volatile(b.mons[defender])
           THEN [b EXCEPT !.mons[defender].volatiles.infatuated_with = actor_idx]
           ELSE b
      [] move.name \in CONFUSION_STATUS_MOVES /\ move_landed ->
           With(IF open_to_volatile(b.mons[defender])
                THEN [b EXCEPT !.mons[defender].volatiles.confusion_turns = b.rnd.confturns]
                ELSE b, LAMBDA b1 :
              IF move.name = "Swagger"
              THEN [b1 EXCEPT !.mons = change_stat_stage(b1.mons, defender, "Atk", 2, attacker,
                                           [StageOpts EXCEPT !.from_opponent = TRUE])]
              ELSE b1)
      [] move.name = "Leech Seed" /\ move_landed ->
           IF open_to_volatile(b.mons[defender]) /\ ~Contains(b.mons[defender].types, "Grass")
           THEN [b EXCEPT !.mons[defender].volatiles.leech_seed = actor_idx]
           ELSE b
      [] OTHER -> b

\* BattleEnv._is_contact_move (no move of the teams is in NON_CONTACT_PHYSICAL_MOVES)
is_contact_move(move) == move.category = "Physical" /\ move.power > 0

\* BattleEnv._handle_contact_recoil
handle_contact_recoil(b, attacker, defender, move) ==
    LET magic_guard == b.mons[attacker].ability = "Magic Guard"
        helmet == b.mons[defender].item = "Rocky Helmet" /\ ~magic_guard
    IN IF b.mons[attacker].current_hp <= 0 \/ ~is_contact_move(move) THEN b
       ELSE With(IF helmet
                 THEN deal_damage(b, attacker, Max(1, FloorDiv(max_hp(b.mons[attacker]), 6)))
                 ELSE b, LAMBDA b1 :
            IF helmet /\ (b1.done \/ b1.mons[attacker].current_hp <= 0) THEN b1
            ELSE IF b1.mons[defender].ability \in {"Rough Skin", "Iron Barbs"} /\ ~magic_guard
                 THEN deal_damage(b1, attacker, Max(1, FloorDiv(max_hp(b1.mons[attacker]), 8)))
            ELSE b1)

\* BattleEnv._handle_attacker_items
handle_attacker_items(b, attacker, total_damage) ==
    LET orb == b.mons[attacker].item = "Life Orb" /\ b.mons[attacker].ability # "Magic Guard"
    IN IF b.mons[attacker].current_hp <= 0 THEN b
       ELSE With(IF orb
                 THEN deal_damage(b, attacker, Max(1, FloorDiv(max_hp(b.mons[attacker]), 10)))
                 ELSE b, LAMBDA b1 :
            IF orb /\ (b1.done \/ b1.mons[attacker].current_hp <= 0) THEN b1
            ELSE IF b1.mons[attacker].item = "Shell Bell"
                 THEN [b1 EXCEPT !.mons[attacker].current_hp =
                          Min(max_hp(b1.mons[attacker]), @ + Max(1, FloorDiv(total_damage, 8)))]
            ELSE b1)

\* BattleEnv._handle_post_damage_effects
handle_post_damage_effects(b, attacker, defender, move, total_damage) ==
    IF total_damage <= 0 \/ b.done THEN b
    ELSE With(handle_contact_recoil(b, attacker, defender, move), LAMBDA b1 :
              IF b1.done THEN b1 ELSE handle_attacker_items(b1, attacker, total_damage))

\* BattleEnv._boost_stat_stage
boost_stat_stage(ms, who, stat, stages) ==
    change_stat_stage(ms, who, stat, stages, who, [StageOpts EXCEPT !.ignore_blockers = TRUE])

\* BattleEnv._handle_defender_damage_items
handle_defender_damage_items(b, defender, attacker, defender_side_idx, attacker_side_idx, effectiveness, hp_damage) ==
    LET item == b.mons[defender].item
        used == [b EXCEPT !.mons[defender].item = NoItem]
    IN IF b.mons[defender].current_hp <= 0 \/ hp_damage <= 0 THEN b
       ELSE IF item = NoItem THEN b
       ELSE IF item = "Air Balloon" THEN used
       ELSE IF item = "Eject Button" THEN force_switch(used, defender_side_idx, FALSE, TRUE)
       ELSE IF item = "Red Card" /\ b.mons[attacker].current_hp > 0
            THEN force_switch(used, attacker_side_idx, TRUE, FALSE)
       ELSE IF item = "Weakness Policy" /\ effectiveness[1] > effectiveness[2]
            THEN [used EXCEPT !.mons = boost_stat_stage(
                                          boost_stat_stage(used.mons, defender, "Atk", 2),
                                          defender, "SpA", 2)]
       ELSE b

\* BattleEnv._handle_pivoting_move.  Of BATON_PASS_VOLATILES the model holds
\* focus_energy; a volatile is in the payload only when the user has it.
handle_pivoting_move(b, actor_idx, move, move_landed) ==
    LET old == ActiveKey(b, actor_idx)
        mon == b.mons[old]
        received(new_mon) ==
            [new_mon EXCEPT
                !.stat_stages = mon.stat_stages,
                !.accuracy_stage = mon.accuracy_stage,
                !.evasion_stage = mon.evasion_stage,
                !.substitute_hp = mon.substitute_hp,
                !.volatiles.focus_energy = IF mon.volatiles.focus_energy THEN TRUE ELSE @]
    IN IF move.name \notin {"U-turn", "Volt Switch", "Flip Turn", "Parting Shot", "Baton Pass"}
          \/ ~move_landed THEN b
       ELSE IF mon.current_hp <= 0 THEN b
       ELSE With(force_switch(b, actor_idx, FALSE, FALSE), LAMBDA b1 :
            IF move.name = "Baton Pass" /\ switched(b, actor_idx)
            THEN [b1 EXCEPT !.mons[ActiveKey(b1, actor_idx)] = received(@),
                            !.mons[old].substitute_hp = NoSub,
                            !.mons[old].volatiles.focus_energy =
                                IF mon.volatiles.focus_energy THEN FALSE ELSE @]
            ELSE b1)


\* the tail every branch of an action ends with: attacker.last_move_used = move.name
\* (attacker is the combatant that was active when the action began)
\* and self._reset_protect_counter(attacker, move.name)
finish_action(b, attacker, move) ==
    reset_protect_counter([b EXCEPT !.mons[attacker].last_move_used = move.name],
                          attacker, move.name)

\* BattleEnv._process_primary_status: can the attacker act (no combatant of
\* the teams is asleep, frozen or flinching); random.random() < 0.25 is b.rnd.par
process_primary_status(b, attacker) == ~(b.mons[attacker].status = "par" /\ b.rnd.par)

\* BattleEnv._process_infatuation: the battle after it and whether the
\* attacker can act; random.random() < 0.5 is b.rnd.inf
process_infatuation(b, attacker, target) ==
    LET source_idx == b.mons[attacker].volatiles.infatuated_with
    IN IF source_idx = NoSide THEN [b |-> b, ok |-> TRUE]
       ELSE IF active_index(b, target) # source_idx
            THEN [b |-> [b EXCEPT !.mons[attacker].volatiles.infatuated_with = NoSide],
                  ok |-> TRUE]
       ELSE [b |-> b, ok |-> ~b.rnd.inf]

\* BattleEnv._apply_confusion_self_hit; random.randint(low, high) is b.rnd.confdmg
apply_confusion_self_hit(b, attacker) ==
    LET range == calculate_damage(b.mons[attacker], b.mons[attacker], CONFUSION_SELF_HIT_MOVE,
                                  b.field, NoSide, 1)
        b1 == [b EXCEPT !.mons[attacker] = after_calculate_damage(@, CONFUSION_SELF_HIT_MOVE)]
    IN IF range[2] <= 0 THEN b1 ELSE deal_damage(b1, attacker, b.rnd.confdmg)

\* BattleEnv._process_confusion; random.random() < 1/3 is b.rnd.conf
process_confusion(b, attacker) ==
    LET turns == b.mons[attacker].volatiles.confusion_turns
    IN IF turns = 0 THEN [b |-> b, ok |-> TRUE]
       ELSE With([b EXCEPT !.mons[attacker].volatiles.confusion_turns = turns - 1], LAMBDA b1 :
               IF b.rnd.conf THEN [b |-> apply_confusion_self_hit(b1, attacker), ok |-> FALSE]
               ELSE [b |-> b1, ok |-> TRUE])

\* BattleEnv._can_act_this_turn: primary status, then infatuation, then confusion
can_act_this_turn(b, attacker, target) ==
    IF ~process_primary_status(b, attacker) THEN [b |-> b, ok |-> FALSE]
    ELSE With(process_infatuation(b, attacker, target), LAMBDA r :
            IF ~r.ok THEN r ELSE process_confusion(r.b, attacker))

\* BattleEnv._is_move_blocked (no combatant of the teams is disabled or tormented)
is_move_blocked(b, attacker, move) ==
    b.mons[attacker].volatiles.taunt_turns > 0 /\ move.category = "Status"

\* BattleEnv._handle_phazing_move
handle_phazing_move(b, target_idx, move, move_landed) ==
    IF move.name \notin PHASING_MOVES \/ ~move_landed THEN b
    ELSE IF b.mons[ActiveKey(b, target_idx)].current_hp <= 0 THEN b
    ELSE force_switch(b, target_idx, TRUE, TRUE)

\* the Status branch of one action (lines 1246-1307); no combatant of the
\* teams has an absorbing ability or Magic Bounce
status_action(b, actor_idx, attacker, target, move, move_lands) ==
    LET target_idx == 1 - actor_idx
        handled == custom_handled(move, move_lands)
        effects(b1) == IF /\ ~handled /\ move_lands
                          /\ ~b1.mons[target].volatiles.protect_active
                          /\ b1.mons[target].substitute_hp = NoSub
                       THEN apply_effects_for_move(b1, attacker, target, move.name, actor_idx)
                       ELSE b1
        followups(b1) == IF ~handled /\ move_lands
                         THEN handle_special_move_followups(b1, attacker, move, actor_idx,
                                                            target_idx, move_lands, 0)
                         ELSE b1
        b1e == effects(handle_custom_status_move(b, attacker, target, move, actor_idx,
                                                 move_lands))
        b2 == followups(b1e)
        b3 == handle_eject_pack_trigger(b2, actor_idx, "None")
        b4 == handle_eject_pack_trigger(b3, target_idx, "None")
        b5 == handle_phazing_move(handle_pivoting_move(b4, actor_idx, move, move_lands),
                                  target_idx, move, move_lands)
    IN IF b1e.raised THEN b1e ELSE finish_action(b5, attacker, move)

\* lines 1384-1385 and BattleEnv._apply_partial_trap; 4 + random.randint(0, 1)
\* is b.rnd.trap
apply_partial_trap(b, target, move) ==
    IF move.name \in PARTIAL_TRAP_MOVES /\ b.mons[target].current_hp > 0
    THEN [b EXCEPT !.mons[target].volatiles.partial_trap = b.rnd.trap]
    ELSE b

\* turns = locked.get("turns", 0) - 1 of _start_lock_in
lock_turns_left(turns) == turns - 1

\* BattleEnv._start_lock_in; the lock is volatiles["locked_move"] with its
\* "move" in locked_move and its "turns" in locked_turns ("confuse" is always
\* True); random.randint(2, 3) is b.rnd.lock
start_lock_in(b, attacker, move) ==
    LET v == b.mons[attacker].volatiles
        turns == lock_turns_left(v.locked_turns)
        unlocked == [b EXCEPT !.mons[attacker].volatiles.locked_move = NoMove,
                              !.mons[attacker].volatiles.locked_turns = 0]
    IN IF v.locked_move = move.name
       THEN IF turns <= 0
            THEN [unlocked EXCEPT !.mons[attacker].volatiles.confusion_turns = b.rnd.confturns]
            ELSE [b EXCEPT !.mons[attacker].volatiles.locked_turns = turns]
       ELSE IF b.rnd.lock <= 1 THEN b
       ELSE [b EXCEPT !.mons[attacker].volatiles.locked_move = move.name,
                      !.mons[attacker].volatiles.locked_turns = b.rnd.lock - 1]

\* lines 1402-1404 of apply_turn
rampage(b, attacker, move, hp_damage) ==
    IF move.name \in RAMPAGE_MOVES
       /\ (hp_damage > 0 \/ b.mons[attacker].volatiles.locked_move # NoMove)
    THEN start_lock_in(b, attacker, move)
    ELSE b

\* BattleEnv._resolve_move_choice (no combatant of the teams is under Encore
\* or charging a move): the move a locked combatant is made to use
resolve_move_choice(attacker_mon, requested_move) ==
    LET forced == {i \in 1..Len(attacker_mon.moves) :
                      attacker_mon.moves[i].name = attacker_mon.volatiles.locked_move}
    IN IF attacker_mon.volatiles.locked_move # NoMove /\ forced # {}
       THEN attacker_mon.moves[CHOOSE i \in forced : \A j \in forced : i <= j]
       ELSE requested_move

\* a substitute that lets the whole damage of a hit through its pool, to
\* compare absorbed with
absorbed_in_full(damage, pool) == damage

\* applied = min(damage, target.substitute_hp) of the hit loop (line 1353)
absorbed(damage, pool) == Min(damage, pool)

\* the hit loop of apply_turn (lines 1340-1364) over the values that
\* compute_damage_for_hit returns for the hits; st is the battle with
\* total_effective_damage and hp_damage so far
RECURSIVE hit_loop(_, _, _)
hit_loop(st, target, damages) ==
    IF damages = <<>> THEN st
    ELSE LET damage == Head(damages)
             sub == st.b.mons[target].substitute_hp
         IN IF damage <= 0 THEN hit_loop(st, target, Tail(damages))
            ELSE IF sub # NoSub
            THEN With(absorbed(damage, sub), LAMBDA applied :
                    hit_loop([st EXCEPT !.b.mons[target].substitute_hp = sub - applied,
                                        !.total = @ + applied],
                             target, Tail(damages)))
            ELSE With(dealt_amount(st.b, target, damage), LAMBDA applied :
                 With([b |-> deal_damage(st.b, target, damage), total |-> st.total + applied,
                       hp_damage |-> st.hp_damage + applied], LAMBDA st1 :
                    IF st1.b.mons[target].current_hp <= 0 \/ st1.b.done THEN st1
                    ELSE hit_loop(st1, target, Tail(damages))))

\* the damaging branch of one action (lines 1309-1408); the values of
\* compute_damage_for_hit are b.rnd.dmg and, for the second hit of a two-hit
\* move, b.rnd.dmg2 (no move of the teams has another multihit than (2, 2));
\* `computed` is the battle with what the first of these calls writes
damage_action(b, actor_idx, attacker, target, move, move_lands) ==
    LET target_idx == 1 - actor_idx
        effectiveness == type_effectiveness(move.type, b.mons[target].types, b.field)
        damages == IF ~move_lands THEN <<>>
                   ELSE IF move.multihit = <<1, 1>> THEN <<b.rnd.dmg>>
                   ELSE <<b.rnd.dmg, b.rnd.dmg2>>
        after_hits(st) ==
            IF st.hp_damage > 0
            THEN apply_partial_trap(
                     handle_defender_damage_items(
                         handle_post_damage_effects(
                             apply_effects_for_move(st.b, attacker, target, move.name, actor_idx),
                             attacker, target, move, st.total),
                         target, attacker, target_idx, actor_idx, effectiveness, st.hp_damage),
                     target, move)
            ELSE st.b
        followed(st) == handle_special_move_followups(after_hits(st), attacker, move, actor_idx,
                                                      target_idx, move_lands, st.total)
        computed == IF damages = <<>> THEN b
                    ELSE [b EXCEPT !.mons[target] = after_calculate_damage(@, move)]
        hit == hit_loop([b |-> computed, total |-> 0, hp_damage |-> 0], target, damages)
        b2 == followed(hit)
        b3 == handle_eject_pack_trigger(b2, actor_idx, "None")
        b4 == handle_eject_pack_trigger(b3, target_idx, "None")
        b5 == handle_phazing_move(handle_pivoting_move(b4, actor_idx, move, move_lands),
                                  target_idx, move, move_lands)
    IN IF b.mons[target].volatiles.protect_active THEN finish_action(b, attacker, move)
       ELSE finish_action(rampage(b5, attacker, move, hit.hp_damage), attacker, move)

\* one iteration of apply_turn's loop over `actions`, from line 1178 on
act_one(b, actor_idx, move, moved_second) ==
    LET target_idx == 1 - actor_idx
        attacker == ActiveKey(b, actor_idx)
        target == ActiveKey(b, target_idx)
        b1 == Logged([b EXCEPT !.acted[actor_idx] = TRUE], <<"move", actor_idx, 0>>)
        move_lands == b.rnd.hit
    IN IF b.mons[attacker].current_hp <= 0 \/ b.mons[target].current_hp <= 0
       THEN [b EXCEPT !.acted[actor_idx] = TRUE]
       ELSE IF is_move_blocked(b, attacker, move) THEN finish_action(b1, attacker, move)
       ELSE IF move.priority > 0 /\ b.field.terrain = "Psychic" /\ is_grounded(b.mons[target])
            THEN finish_action(b1, attacker, move)
       ELSE With(can_act_this_turn(b1, attacker, target), LAMBDA r :
            IF ~r.ok THEN finish_action(r.b, attacker, move)
            ELSE IF move.category = "Status"
            THEN status_action(r.b, actor_idx, attacker, target, move, move_lands)
            ELSE damage_action(r.b, actor_idx, attacker, target, move, move_lands))

(***************************************************************************)
(* env.py: end of turn                                                     *)
(***************************************************************************)
\* the weather chip of _apply_end_of_turn_effects for one side
weather_damage(b, side_idx) ==
    LET key == ActiveKey(b, side_idx)
        mon == b.mons[key]
        immune == IF b.field.weather = "Sandstorm"
                  THEN Contains(mon.types, "Rock") \/ Contains(mon.types, "Ground")
                       \/ Contains(mon.types, "Steel")
                  ELSE Contains(mon.types, "Ice")
    IN IF mon.current_hp <= 0 \/ immune \/ mon.ability \in {"Magic Guard", "Overcoat"}
          \/ mon.item = "Safety Goggles" THEN b
       ELSE deal_damage(b, key, Max(1, FloorDiv(max_hp(mon), 16)))

\* the Grassy Terrain heal of _apply_end_of_turn_effects for one side
grassy_heal(b, side_idx) ==
    LET key == ActiveKey(b, side_idx)
        mon == b.mons[key]
    IN IF mon.current_hp <= 0 \/ ~is_grounded(mon) THEN b
       ELSE [b EXCEPT !.mons[key].current_hp = Min(max_hp(mon), @ + Max(1, FloorDiv(max_hp(mon), 16)))]

\* counter = mon.toxic_counter or 1 of _apply_status_damage
toxic_turns(mon) == IF mon.toxic_counter = 0 THEN 1 ELSE mon.toxic_counter

\* the tox damage of _apply_status_damage: max(1, max_hp * min(15, counter) // 16)
toxic_damage(mon) == Max(1, FloorDiv(max_hp(mon) * Min(15, toxic_turns(mon)), 16))

\* BattleEnv._apply_status_damage
apply_status_damage(b, key) ==
    LET mon == b.mons[key]
        counter == toxic_turns(mon)
    IN IF mon.current_hp <= 0 THEN b
       ELSE IF mon.status \in {"psn", "tox"} /\ mon.ability = "Poison Heal"
            THEN [b EXCEPT !.mons[key].current_hp = Min(max_hp(mon), @ + Max(1, FloorDiv(max_hp(mon), 8))),
                           !.mons[key].toxic_counter = IF mon.status = "tox" THEN Min(15, counter + 1) ELSE @]
       ELSE IF mon.ability = "Magic Guard" THEN b
       ELSE IF mon.status = "brn"
            THEN deal_damage(b, key, IF mon.ability = "Heatproof"
                                     THEN Max(1, FloorDiv(Max(1, FloorDiv(max_hp(mon), 16)), 2))
                                     ELSE Max(1, FloorDiv(max_hp(mon), 16)))
       ELSE IF mon.status = "psn" THEN deal_damage(b, key, Max(1, FloorDiv(max_hp(mon), 8)))
       ELSE IF mon.status = "tox"
            THEN [deal_damage(b, key, toxic_damage(mon))
                     EXCEPT !.mons[key].toxic_counter = Min(15, counter + 1)]
       ELSE b

\* the Leech Seed part of _apply_volatile_damage
leech_seed_damage(b, key, side_idx) ==
    LET mon == b.mons[key]
        seed_owner == mon.volatiles.leech_seed
    IN IF seed_owner = NoSide THEN b
       ELSE IF Contains(mon.types, "Grass") THEN [b EXCEPT !.mons[key].volatiles.leech_seed = NoSide]
       ELSE IF mon.ability = "Magic Guard" THEN b
       ELSE With(Max(1, FloorDiv(max_hp(mon), 8)), LAMBDA dmg :
            With(dealt_amount(b, key, dmg), LAMBDA healed :
            With(deal_damage(b, key, dmg), LAMBDA b1 :
            With(ActiveKey(b1, seed_owner), LAMBDA source :
            IF healed > 0 /\ ~b1.done /\ b1.mons[source].current_hp > 0
            THEN [b1 EXCEPT !.mons[source].current_hp = Min(max_hp(b1.mons[source]), @ + healed)]
            ELSE b1))))

\* the partial-trap part of _apply_volatile_damage: the damage, then the
\* countdown of the trap (partial_trap is the "turns" of the trap, 0 for none)
partial_trap_damage(b, key) ==
    LET mon == b.mons[key]
        trap == mon.volatiles.partial_trap
        remaining == trap - 1
    IN IF trap = 0 THEN b
       ELSE With(IF mon.ability # "Magic Guard" /\ mon.current_hp > 0
                 THEN deal_damage(b, key, Max(1, FloorDiv(max_hp(mon), 8)))
                 ELSE b, LAMBDA b1 :
            [b1 EXCEPT !.mons[key].volatiles.partial_trap = IF remaining <= 0 THEN 0 ELSE remaining])

\* BattleEnv._apply_volatile_damage (no combatant of the teams is salt-cured)
apply_volatile_damage(b, key, side_idx) ==
    IF b.mons[key].current_hp <= 0 THEN b
    ELSE partial_trap_damage(leech_seed_damage(b, key, side_idx), key)

\* BattleEnv._apply_item_residuals
apply_item_residuals(b, key) ==
    LET mon == b.mons[key]
        heal == [b EXCEPT !.mons[key].current_hp = Min(max_hp(mon), @ + Max(1, FloorDiv(max_hp(mon), 16)))]
    IN IF mon.current_hp <= 0 \/ mon.item = NoItem THEN b
       ELSE IF mon.item = "Leftovers" \/ (mon.item = "Black Sludge" /\ Contains(mon.types, "Poison"))
            THEN heal
       ELSE IF mon.item = "Black Sludge"
            THEN IF mon.ability # "Magic Guard"
                 THEN deal_damage(b, key, Max(1, FloorDiv(max_hp(mon), 8)))
                 ELSE b
       ELSE b

\* BattleEnv._tick_volatile_timers (no combatant of the teams is under Encore
\* or Disable)
tick_volatile_timers(b, key) ==
    IF b.mons[key].volatiles.taunt_turns > 0
    THEN [b EXCEPT !.mons[key].volatiles.taunt_turns = @ - 1]
    ELSE b

\* one side of _apply_status_and_volatile_effects: status damage, volatile
\* damage, item residuals, then the volatile timers, each on the combatant that
\* was active when the side's pass began (no G-Max residual is ever set, so
\* _apply_side_residuals, called between the last two, changes nothing)
status_and_volatile_effects_side(b, side_idx) ==
    LET key == ActiveKey(b, side_idx)
    IN IF b.mons[key].current_hp <= 0 THEN b
       ELSE With(apply_status_damage(Logged(b, <<"residual", side_idx, 0>>), key), LAMBDA b1 :
            IF b1.done THEN b1
            ELSE With(apply_volatile_damage(b1, key, side_idx), LAMBDA b2 :
                 IF b2.done THEN b2
                 ELSE With(apply_item_residuals(b2, key), LAMBDA b3 :
                      IF b3.done THEN b3 ELSE tick_volatile_timers(b3, key))))

\* BattleEnv._apply_status_and_volatile_effects
apply_status_and_volatile_effects(b) ==
    With(status_and_volatile_effects_side(b, 0), LAMBDA b1 :
         IF b1.done THEN b1 ELSE status_and_volatile_effects_side(b1, 1))

\* the candidates of _apply_moody_boosts
up_candidates(mon) == {stat \in AllStageKeys : get_stage_value(mon, stat) < 6}
down_candidates(mon, up_stat) ==
    {stat \in AllStageKeys : stat # up_stat /\ get_stage_value(mon, stat) > 0 - 6}

\* one side of _apply_moody_boosts; the two random.choice results are
\* b.rnd.up and b.rnd.down
moody_boosts_side(b, side_idx) ==
    LET key == ActiveKey(b, side_idx)
        mon == b.mons[key]
    IN IF mon.current_hp <= 0 \/ mon.ability # "Moody" THEN b
       ELSE IF up_candidates(mon) = {} THEN b
       ELSE With(boost_stat_stage(b.mons, key, b.rnd.up[side_idx], 2), LAMBDA raised :
            IF down_candidates(raised[key], b.rnd.up[side_idx]) = {} THEN [b EXCEPT !.mons = raised]
            ELSE [b EXCEPT !.mons = boost_stat_stage(raised, key, b.rnd.down[side_idx], 0 - 1)])

\* BattleEnv._apply_moody_boosts
apply_moody_boosts(b) == moody_boosts_side(moody_boosts_side(b, 0), 1)

\* BattleEnv._tick_side_conditions for one (flag, turns) pair
tick_flag(active_, turns, idx) == active_[idx] /\ turns[idx] > 1
tick_turns(active_, turns, idx) == IF active_[idx] /\ turns[idx] > 1 THEN turns[idx] - 1 ELSE 0

tick_side_conditions(fld) ==
    [fld EXCEPT
        !.reflect = [i \in Sides |-> tick_flag(fld.reflect, fld.reflect_turns, i)],
        !.reflect_turns = [i \in Sides |-> tick_turns(fld.reflect, fld.reflect_turns, i)],
        !.light_screen = [i \in Sides |-> tick_flag(fld.light_screen, fld.light_screen_turns, i)],
        !.light_screen_turns = [i \in Sides |-> tick_turns(fld.light_screen, fld.light_screen_turns, i)],
        !.aurora_veil = [i \in Sides |-> tick_flag(fld.aurora_veil, fld.aurora_veil_turns, i)],
        !.aurora_veil_turns = [i \in Sides |-> tick_turns(fld.aurora_veil, fld.aurora_veil_turns, i)],
        !.tailwind = [i \in Sides |-> tick_flag(fld.tailwind, fld.tailwind_turns, i)],
        !.tailwind_turns = [i \in Sides |-> tick_turns(fld.tailwind, fld.tailwind_turns, i)]]

\* the weather and terrain countdown at the end of _apply_end_of_turn_effects
tick_weather_terrain(fld) ==
    With(IF fld.weather_turns > 0
         THEN [fld EXCEPT !.weather_turns = @ - 1,
                          !.weather = IF fld.weather_turns = 1 THEN "None" ELSE @]
         ELSE fld, LAMBDA f1 :
       IF f1.terrain_turns > 0
       THEN [f1 EXCEPT !.terrain_turns = @ - 1,
                       !.terrain = IF f1.terrain_turns = 1 THEN "None" ELSE @]
       ELSE f1)

\* the first loop of _apply_end_of_turn_effects: the protect flag of a side's
\* active combatant is popped
pop_protect(b, side_idx) ==
    [b EXCEPT !.mons[ActiveKey(b, side_idx)].volatiles.protect_active = FALSE]

\* _apply_end_of_turn_effects up to the call of _apply_moody_boosts: the
\* battle, and whether the handler returned early because the battle ended.
\* No combatant of the teams has Solar Power or Dry Skin.
eot_residuals(b0) ==
    LET chip == b0.field.weather \in {"Sandstorm", "Hail", "Snow"}
        b == pop_protect(pop_protect(b0, 0), 1)
    IN With(IF chip THEN weather_damage(b, 0) ELSE b, LAMBDA w0 :
       With(IF chip /\ ~w0.done THEN weather_damage(w0, 1) ELSE w0, LAMBDA w1 :
       IF chip /\ w1.done THEN [b |-> w1, stopped |-> TRUE]
       ELSE With(IF w1.field.terrain = "Grassy" THEN grassy_heal(grassy_heal(w1, 0), 1) ELSE w1,
                 LAMBDA g :
            With(apply_status_and_volatile_effects(g), LAMBDA s :
            [b |-> s, stopped |-> s.done]))))

\* BattleEnv._apply_end_of_turn_effects; its result is the battle and whether
\* the end of the handler (state.turn += 1) was reached
end_of_turn_effects(b) ==
    With(eot_residuals(b), LAMBDA r :
       IF r.stopped THEN [b |-> r.b, finished |-> FALSE]
       ELSE With(apply_moody_boosts(r.b), LAMBDA m :
            IF m.done THEN [b |-> m, finished |-> FALSE]
            ELSE [b |-> [m EXCEPT !.field = tick_weather_terrain(tick_side_conditions(m.field))],
                  finished |-> TRUE]))

\* a reward that does not look at the winner, to compare step_reward with
step_reward_flat(is_done, who_won) == IF is_done THEN 1 ELSE 0

\* BattleEnv.step: the reward it returns
step_reward(is_done, who_won) ==
    IF is_done THEN (IF who_won = 0 THEN 1 ELSE 0 - 1) ELSE 0

(***************************************************************************)
(* The teams.  Every combatant is level 1 with IVs of 31, so a stat is 5,  *)
(* 6 or 7 and max HP is 11, 12 or 13; a battle state may be built with any *)
(* current_hp, stat stages, status and field.                              *)
(***************************************************************************)
Stats(hp, atk, def, spa, spd, spe) ==
    [st \in {"HP", "Atk", "Def", "SpA", "SpD", "Spe"} |->
        CASE st = "HP" -> hp [] st = "Atk" -> atk [] st = "Def" -> def
          [] st = "SpA" -> spa [] st = "SpD" -> spd [] OTHER -> spe]

NoStages == [st \in StageStats |-> 0]
NoVolatiles ==
    [eject_pack_trigger |-> FALSE, leech_seed |-> NoSide, focus_energy |-> FALSE,
     confusion_turns |-> 0, infatuated_with |-> NoSide, protect_active |-> FALSE,
     protect_streak |-> 0, taunt_turns |-> 0, partial_trap |-> 0,
     locked_move |-> NoMove, locked_turns |-> 0, disguise_busted |-> FALSE]

\* PokemonState(species, 1, base_stats, types, ability, item=..., current_hp=..., moves=...)
\* after __post_init__: current_hp <= 0 becomes max_hp
PokemonState(species, base_stats, types, ability, item, current_hp, moves) ==
    LET made == [species |-> species, level |-> 1, base_stats |-> base_stats, types |-> types,
                 ability |-> ability, item |-> item, nature |-> "Hardy",
                 current_hp |-> current_hp, status |-> NoStatus, toxic_counter |-> 0,
                 stat_stages |-> NoStages, accuracy_stage |-> 0, evasion_stage |-> 0,
                 volatiles |-> NoVolatiles, moves |-> moves, substitute_hp |-> NoSub,
                 last_move_used |-> NoMove]
    IN IF current_hp <= 0 THEN [made EXCEPT !.current_hp = max_hp(made)] ELSE made

\* FieldState()
FieldState ==
    [game_type |-> "Singles", weather |-> "None", weather_turns |-> 0,
     terrain |-> "None", terrain_turns |-> 0,
     spikes |-> [i \in Sides |-> 0], stealth_rocks |-> [i \in Sides |-> FALSE],
     toxic_spikes |-> [i \in Sides |-> 0], sticky_web |-> [i \in Sides |-> FALSE],
     tailwind |-> [i \in Sides |-> FALSE], tailwind_turns |-> [i \in Sides |-> 0],
     reflect |-> [i \in Sides |-> FALSE], reflect_turns |-> [i \in Sides |-> 0],
     light_screen |-> [i \in Sides |-> FALSE], light_screen_turns |-> [i \in Sides |-> 0],
     aurora_veil |-> [i \in Sides |-> FALSE], aurora_veil_turns |-> [i \in Sides |-> 0]]

\* a move whose PP is used up: the engine never decrements MoveData.pp, so a
\* PP-exhausted move is a MoveData built with pp = 0
Peck == MoveData("Peck", "Flying", "Physical", 35, 100, 0, 0)

\* the random draws of a handler that draws nothing
NoDraws == [hit |-> TRUE, crit |-> FALSE, dmg |-> 0, par |-> FALSE, pick |-> 1,
            up |-> [i \in Sides |-> "None"], down |-> [i \in Sides |-> "None"],
            inf |-> FALSE, conf |-> FALSE, confdmg |-> 1, confturns |-> 2, protect |-> TRUE,
            trap |-> 4, dmg2 |-> 0, lock |-> 2]

\* BattleState(sides=[SideState(active=[party0[1]], party=party0), ...], field)
\* as the b of a handler
BattleOf(party0, party1, fld) ==
    [mons |-> [k \in ({0} \X (1..Len(party0))) \cup ({1} \X (1..Len(party1))) |->
                  IF k[1] = 0 THEN party0[k[2]] ELSE party1[k[2]]],
     active |-> [i \in Sides |-> 1],
     field |-> fld, done |-> FALSE, winner |-> NoSide,
     skip |-> [i \in Sides |-> FALSE], acted |-> [i \in Sides |-> FALSE],
     rnd |-> NoDraws, log |-> <<>>, raised |-> FALSE]


Mid == Stats(60, 60, 60, 60, 60, 60)
Fast == Stats(60, 60, 60, 60, 60, 90)
Slow == Stats(60, 60, 60, 60, 60, 30)

\* knock-outs, replacements, priority and a speed tie; Peck has no PP left
TeamBasic ==
    BattleOf(<<PokemonState("Pidgey", Mid, <<"Normal", "Flying">>, "Keen Eye", NoItem, 4,
                            <<Tackle, QuickAttack, Peck>>),
               PokemonState("Rattata", Mid, <<"Normal">>, "Run Away", NoItem, 0, <<Splash>>)>>,
             <<PokemonState("Machop", Mid, <<"Fighting">>, "Steadfast", NoItem, 3, <<Tackle>>),
               PokemonState("Zubat", Mid, <<"Poison", "Flying">>, "Inner Focus", NoItem, 3,
                            <<QuickAttack>>)>>,
             FieldState)

\* Gale Wings, paralysis and different speeds
TeamSpeed ==
    BattleOf(<<PokemonState("Talonflame", Fast, <<"Fire", "Flying">>, "Gale Wings", NoItem, 0,
                            <<WingAttack, Tackle>>)>>,
             <<PokemonState("Pikachu", Mid, <<"Electric">>, "Static", NoItem, 3, <<ThunderWave>>),
               PokemonState("Sneasel", Slow, <<"Dark", "Ice">>, "Pickpocket", NoItem, 0,
                            <<QuickAttack>>)>>,
             FieldState)

\* stat stages: Simple, Defiant, Intimidate, Eject Pack, Mirror Armor, White Herb, Baton Pass
TeamStages ==
    BattleOf(<<PokemonState("Bidoof", Mid, <<"Normal">>, "Simple", NoItem, 0,
                            <<SwordsDance, BatonPass>>),
               PokemonState("Bisharp", Mid, <<"Dark", "Steel">>, "Defiant", NoItem, 0,
                            <<Screech, Tackle>>)>>,
             <<PokemonState("Gyarados", Mid, <<"Water", "Flying">>, "Intimidate", "Eject Pack", 0,
                            <<Growl, Screech>>),
               PokemonState("Corviknight", Mid, <<"Flying", "Steel">>, "Mirror Armor", "White Herb", 0,
                            <<Growl>>)>>,
             FieldState)

\* residual damage and healing, substitutes, hazards and held items
TeamResidual ==
    BattleOf(<<PokemonState("Venusaur", Mid, <<"Grass", "Poison">>, "Overgrow", "Life Orb", 7,
                            <<Tackle, Toxic, LeechSeed, StealthRock>>)>>,
             <<PokemonState("Chansey", Mid, <<"Normal">>, "Natural Cure", "Rocky Helmet", 4,
                            <<Substitute, Spikes>>),
               PokemonState("Skarmory", Mid, <<"Steel", "Flying">>, "Sturdy", "Sitrus Berry", 2,
                            <<StealthRock>>)>>,
             FieldState)

\* Moody next to the ends of the stage range
TeamMoody ==
    BattleOf(<<[PokemonState("Smeargle", Mid, <<"Normal">>, "Moody", NoItem, 0, <<Splash>>)
                  EXCEPT !.stat_stages = [NoStages EXCEPT !["Atk"] = 5, !["Spe"] = 0 - 5],
                         !.accuracy_stage = 0 - 6, !.evasion_stage = 6]>>,
             <<PokemonState("Magikarp", Mid, <<"Water">>, "Swift Swim", "Leftovers", 9, <<Splash>>)>>,
             FieldState)

\* a battle that poison decides at the end of a turn
TeamPoison ==
    BattleOf(<<[PokemonState("Eevee", Mid, <<"Normal">>, "Adaptability", NoItem, 3,
                             <<Splash, Toxic>>) EXCEPT !.status = "psn"]>>,
             <<PokemonState("Ditto", Mid, <<"Normal">>, "Limber", NoItem, 2, <<Splash>>)>>,
             FieldState)

Teams == {TeamBasic, TeamSpeed, TeamStages, TeamResidual, TeamMoody, TeamPoison}

\* a Ghost type facing a Normal move and a fixed-damage Fighting move, with
\* Life Orb on the attacker and Rocky Helmet on the Ghost
TeamImmune ==
    BattleOf(<<PokemonState("Hitmonlee", Mid, <<"Fighting">>, "Limber", "Life Orb", 6,
                            <<Tackle, SeismicToss>>)>>,
             <<PokemonState("Gastly", Mid, <<"Ghost", "Poison">>, "Levitate", "Rocky Helmet", 3,
                            <<Splash>>)>>,
             FieldState)

\* test_intimidate_eject_pack: an Eject Pack holder with a bench member faces
\* an Intimidate user from the start
TeamEjectAtStart ==
    BattleOf(<<PokemonState("Raticate", Mid, <<"Normal">>, "Guts", "Eject Pack", 0, <<Splash>>),
               PokemonState("Furret", Mid, <<"Normal">>, "Run Away", NoItem, 0, <<Splash>>)>>,
             <<PokemonState("Arcanine", Mid, <<"Fire">>, "Intimidate", NoItem, 0, <<Splash>>)>>,
             FieldState)

\* an Intimidate user that comes in during a turn, by Baton Pass or for a
\* fainted partner, against an Eject Pack holder of the same speed
TeamEject ==
    BattleOf(<<PokemonState("Raticate", Mid, <<"Normal">>, "Guts", "Eject Pack", 0,
                            <<Tackle, Splash>>),
               PokemonState("Furret", Mid, <<"Normal">>, "Run Away", NoItem, 0, <<Splash>>)>>,
             <<PokemonState("Ninjask", Mid, <<"Bug", "Flying">>, "Run Away", NoItem, 1,
                            <<BatonPass>>),
               PokemonState("Arcanine", Mid, <<"Fire">>, "Intimidate", NoItem, 0, <<Splash>>)>>,
             FieldState)

\* test_baton_pass_transfers_boosts: a passer with changed stages that can
\* make a substitute, and a partner on the bench
TeamBatonPass ==
    BattleOf(<<[PokemonState("Mew", Mid, <<"Psychic">>, "Synchronize", NoItem, 0,
                             <<Substitute, BatonPass>>)
                  EXCEPT !.stat_stages = [NoStages EXCEPT !["SpA"] = 2, !["Def"] = 0 - 1],
                         !.accuracy_stage = 1, !.evasion_stage = 0 - 1],
               PokemonState("Espeon", Mid, <<"Psychic">>, "Magic Guard", NoItem, 0, <<Splash>>)>>,
             <<PokemonState("Snorlax", Mid, <<"Normal">>, "Thick Fat", NoItem, 0, <<Splash>>)>>,
             FieldState)

\* a passer whose only partner holds Eject Pack and has Intimidate, facing
\* Mirror Armor: the partner goes out again as soon as it is in
TeamPassBack ==
    BattleOf(<<[PokemonState("Mew", Mid, <<"Psychic">>, "Synchronize", NoItem, 0,
                             <<Substitute, BatonPass>>)
                  EXCEPT !.stat_stages = [NoStages EXCEPT !["SpA"] = 2]],
               PokemonState("Landorus", Mid, <<"Ground", "Flying">>, "Intimidate", "Eject Pack", 0,
                            <<Splash>>)>>,
             <<PokemonState("Corviknight", Mid, <<"Flying", "Steel">>, "Mirror Armor", NoItem, 0,
                            <<Splash>>)>>,
             FieldState)

\* a badly poisoned combatant of level 5 (max HP 22) that can stay in, go out
\* by Baton Pass and be passed back to
TeamToxic ==
    BattleOf(<<[PokemonState("Umbreon", Mid, <<"Dark">>, "Inner Focus", NoItem, 22,
                             <<Splash, BatonPass>>)
                  EXCEPT !.level = 5, !.status = "tox", !.toxic_counter = 1],
               PokemonState("Vaporeon", Mid, <<"Water">>, "Water Absorb", NoItem, 0, <<BatonPass>>)>>,
             <<PokemonState("Wobbuffet", Mid, <<"Psychic">>, "Telepathy", NoItem, 0, <<Splash>>)>>,
             FieldState)

\* the layers that earlier turns have left on the two sides when the hazard
\* scenario starts: <<spikes, toxic spikes>> of side 0 and of side 1
HazardStarts == {<<0, 0, 0, 0>>, <<3, 2, 0, 0>>, <<2, 1, 3, 2>>}

\* hazard setters, Defog and Court Change against the Rapid Spin of a Contrary
\* user (which gets slower with each one), on a field that already holds the
\* layers of start
TeamHazards(start) ==
    BattleOf(<<PokemonState("Cinderace", Mid, <<"Fire">>, "Blaze", NoItem, 0,
                            <<Spikes, ToxicSpikes, CourtChange, Defog>>)>>,
             <<PokemonState("Spinda", Mid, <<"Normal">>, "Contrary", NoItem, 0, <<RapidSpin>>)>>,
             [FieldState EXCEPT !.spikes = [i \in Sides |-> IF i = 0 THEN start[1] ELSE start[3]],
                                !.toxic_spikes = [i \in Sides |-> IF i = 0 THEN start[2] ELSE start[4]]])

\* the teams of the scenarios
ScenarioTeams ==
    {TeamImmune, TeamEjectAtStart, TeamEject, TeamBatonPass, TeamPassBack, TeamToxic}
        \cup {TeamHazards(start) : start \in HazardStarts}

\* a Light Clay holder and a partner without it that set screens and
\* Tailwind, on a field where side 1 already has a Reflect with 2 turns left
TeamScreens ==
    BattleOf(<<PokemonState("Alakazam", Fast, <<"Psychic">>, "Inner Focus", "Light Clay", 0,
                            <<Reflect, LightScreen, BatonPass>>),
               PokemonState("Ninetales", Fast, <<"Ice">>, "Snow Cloak", NoItem, 0,
                            <<AuroraVeil, Tailwind, Splash>>)>>,
             <<PokemonState("Snorlax", Mid, <<"Normal">>, "Thick Fat", NoItem, 0, <<Splash>>)>>,
             [FieldState EXCEPT !.reflect[1] = TRUE, !.reflect_turns[1] = 2])

\* poisoning moves against a Poison type, which may hold a Lum Berry
TeamPoisonType(item) ==
    BattleOf(<<PokemonState("Venusaur", Fast, <<"Grass", "Poison">>, "Overgrow", NoItem, 0,
                            <<Toxic, PoisonPowder>>)>>,
             <<PokemonState("Arbok", Mid, <<"Poison">>, "Shed Skin", item, 0, <<Splash>>)>>,
             FieldState)

\* a Focus Sash holder of max HP 12, at current_hp (0: full), attacked by a
\* level 10 Tackle (15 to 18 damage) or a level 1 Tackle (2 or 3)
TeamFocusSash(attacker_level, current_hp) ==
    BattleOf(<<[PokemonState("Machamp", Fast, <<"Fighting">>, "Guts", NoItem, 0, <<Tackle>>)
                  EXCEPT !.level = attacker_level, !.current_hp = 12]>>,
             <<PokemonState("Abra", Mid, <<"Psychic">>, "Inner Focus", "Focus Sash", current_hp,
                            <<Splash>>)>>,
             FieldState)

\* an AI whose active has only a move the opponent is immune to, is at full
\* HP and has a safe bench member: should_consider_switch can return it
TeamAISwitch ==
    BattleOf(<<PokemonState("Gengar", Mid, <<"Ghost", "Poison">>, "Cursed Body", NoItem, 0,
                            <<Splash>>)>>,
             <<PokemonState("Snorlax", Mid, <<"Normal">>, "Thick Fat", NoItem, 0, <<Tackle>>),
               PokemonState("Furret", Fast, <<"Normal">>, "Run Away", NoItem, 0, <<Splash>>)>>,
             FieldState)

\* a player who can infatuate and confuse the opposing combatant
TeamCharmed ==
    BattleOf(<<PokemonState("Clefable", Fast, <<"Fairy">>, "Cute Charm", NoItem, 0,
                            <<Attract, ConfuseRay>>)>>,
             <<PokemonState("Snorlax", Mid, <<"Normal">>, "Thick Fat", NoItem, 0, <<Splash>>)>>,
             FieldState)

\* a player who can protect itself, with a bench, against an opponent whose
\* only move is foe_move
TeamProtect(foe_move) ==
    BattleOf(<<PokemonState("Umbreon", Mid, <<"Dark">>, "Synchronize", NoItem, 0,
                            <<Protect, Splash>>),
               PokemonState("Eevee", Mid, <<"Normal">>, "Run Away", NoItem, 0, <<Splash>>)>>,
             <<PokemonState("Tauros", Mid, <<"Normal">>, "Anger Point", NoItem, 0, <<foe_move>>)>>,
             FieldState)

\* a player who can taunt an opponent that Black Sludge hurts each turn and
\* that has 2 HP left
TeamSludge ==
    BattleOf(<<PokemonState("Sableye", Fast, <<"Dark", "Ghost">>, "Prankster", NoItem, 0,
                            <<Taunt, Splash>>)>>,
             <<PokemonState("Snorlax", Mid, <<"Normal">>, "Thick Fat", "Black Sludge", 2,
                            <<Splash>>)>>,
             FieldState)

\* a player who can seed and trap an opponent that has 4 HP left and no bench
TeamTrapped ==
    BattleOf(<<PokemonState("Tangela", Fast, <<"Grass">>, "Chlorophyll", NoItem, 0,
                            <<LeechSeed, Wrap>>)>>,
             <<PokemonState("Snorlax", Mid, <<"Normal">>, "Thick Fat", NoItem, 4, <<Splash>>)>>,
             FieldState)

\* a player with two weather moves and a terrain move, on a field without
\* weather or terrain
TeamWeather ==
    BattleOf(<<PokemonState("Castform", Fast, <<"Normal">>, "Forecast", NoItem, 0,
                            <<RainDance, Sandstorm, GrassyTerrain>>)>>,
             <<PokemonState("Snorlax", Mid, <<"Normal">>, "Thick Fat", NoItem, 0, <<Splash>>)>>,
             FieldState)

\* an attacker with one-hit moves of 1 to 2 and 2 to 3 damage and a two-hit
\* move of 3 to 4 a hit, against a Rocky Helmet holder that puts up a
\* substitute (a pool of 3) whenever it can
TeamSubstitute ==
    BattleOf(<<PokemonState("Hitmonlee", Fast, <<"Fighting">>, "Limber", NoItem, 0,
                            <<Wrap, Tackle, DoubleKick>>)>>,
             <<PokemonState("Vaporeon", Mid, <<"Water">>, "Water Absorb", "Rocky Helmet", 0,
                            <<Substitute>>)>>,
             FieldState)

\* a player with a rampage move that a Steel type resists (2 to 3 damage a
\* use), against an opponent that protects itself
TeamRampage ==
    BattleOf(<<PokemonState("Gyarados", Fast, <<"Water">>, "Moxie", NoItem, 0,
                            <<Outrage, Splash>>)>>,
             <<PokemonState("Steelix", Mid, <<"Steel">>, "Sturdy", NoItem, 0, <<Protect>>)>>,
             FieldState)

\* a Disguise holder on either side; Wing Attack is neither resisted nor
\* strengthened by its types
TeamDisguise ==
    BattleOf(<<PokemonState("Mimikyu", Fast, <<"Ghost", "Fairy">>, "Disguise", NoItem, 0,
                            <<WingAttack, Splash>>)>>,
             <<PokemonState("Mimikyu", Mid, <<"Ghost", "Fairy">>, "Disguise", NoItem, 0,
                            <<WingAttack, Splash>>)>>,
             FieldState)

\* a Disguise holder with 1 HP whose first opponent has no damaging move to
\* score, and whose second opponent has one
TeamLateDisguise ==
    BattleOf(<<PokemonState("Mimikyu", Slow, <<"Ghost", "Fairy">>, "Disguise", NoItem, 1,
                            <<WingAttack>>)>>,
             <<PokemonState("Grimer", Fast, <<"Poison">>, "Stench", NoItem, 1, <<Toxic>>),
               PokemonState("Pidgey", Mid, <<"Normal", "Flying">>, "Keen Eye", NoItem, 0,
                            <<WingAttack>>)>>,
             FieldState)

\* Stealth Rock lies on the automated side, whose second member has 1 HP and
\* whose third has Intimidate; the player's active holds Eject Pack
TeamHazardChain ==
    BattleOf(<<PokemonState("Raticate", Fast, <<"Normal">>, "Guts", "Eject Pack", 0, <<Tackle>>),
               PokemonState("Furret", Mid, <<"Normal">>, "Run Away", NoItem, 0, <<Splash>>)>>,
             <<PokemonState("Rattata", Mid, <<"Normal">>, "Run Away", NoItem, 3, <<Splash>>),
               PokemonState("Pidgey", Mid, <<"Normal", "Flying">>, "Keen Eye", NoItem, 1,
                            <<Splash>>),
               PokemonState("Arcanine", Mid, <<"Fire">>, "Intimidate", NoItem, 0, <<Splash>>)>>,
             [FieldState EXCEPT !.stealth_rocks[1] = TRUE])

\* the teams of the move-effect scenarios
EffectTeams ==
    {TeamScreens, TeamPoisonType(NoItem), TeamPoisonType("Lum Berry"), TeamAISwitch,
     TeamCharmed, TeamSludge, TeamTrapped, TeamWeather, TeamSubstitute,
     TeamRampage, TeamDisguise, TeamLateDisguise, TeamHazardChain}
       \cup {TeamProtect(foe_move) : foe_move \in {Swagger, Roar, Tackle}}
       \cup {TeamFocusSash(lv, hp) : lv \in {1, 10}, hp \in {0, 6}}

\* stats of _apply_moody_boosts: the stats a Moody draw is taken from
MoodyDraws == AllStageKeys

\* BattleEnv.__init__: _on_switch_in for the active of side 0, then of side 1
Construct(b0) ==
    With(on_switch_in(b0, 0, ActiveKey(b0, 0)), LAMBDA b1 :
         on_switch_in(b1, 1, ActiveKey(b1, 1)))

(***************************************************************************)
(* The state machine                                                       *)
(***************************************************************************)
\* self, as the b of a handler that draws rnd
Env(rnd) ==
    [mons |-> mons, active |-> active, field |-> field, done |-> done, winner |-> winner,
     skip |-> turn_skip_action, acted |-> turn_has_acted, rnd |-> rnd, log |-> log,
     raised |-> FALSE]

\* what a step() call can see and change of the battle
Snapshot == [mons |-> mons, active |-> active, field |-> field, turn |-> turn,
             done |-> done, winner |-> winner]

\* the MoveData objects a caller passes to step(): the moves of the player's party
PlayerInputs ==
    UNION {{mons[k].moves[i] : i \in 1..Len(mons[k].moves)} : k \in {kk \in DOMAIN mons : kk[1] = 0}}

Init ==
    \E team \in Teams :
        \E b \in {Construct(team)} :
           /\ mons = b.mons
           /\ active = b.active
           /\ field = b.field
           /\ turn = 1
           /\ done = b.done
           /\ winner = b.winner
           /\ turn_skip_action = b.skip
           /\ turn_has_acted = b.acted
           /\ pc = "idle"
           /\ queue = <<>>
           /\ call = <<>>
           /\ ret = <<>>
           /\ log = <<>>

\* a BattleEnv constructed over one of the scenario teams; log holds what
\* the construction did
InitScenario ==
    \E team \in ScenarioTeams :
        \E b \in {Construct(team)} :
           /\ mons = b.mons
           /\ active = b.active
           /\ field = b.field
           /\ turn = 1
           /\ done = b.done
           /\ winner = b.winner
           /\ turn_skip_action = b.skip
           /\ turn_has_acted = b.acted
           /\ pc = "idle"
           /\ queue = <<>>
           /\ call = <<>>
           /\ ret = <<>>
           /\ log = b.log

\* the actions apply_turn can obtain for the automated side (lines 1133-1138):
\* it calls choose_move, so each is the use of a move
ai_actions ==
    {[type |-> "move", move |-> m] :
        m \in choose_move(mons[Key(1, active[1])], mons[Key(0, active[0])], field)}

\* step(action) up to the loop of apply_turn (lines 1128-1170)
BeginTurn ==
    /\ pc = "idle"
    /\ turn <= MaxTurn
    /\ \E player_move \in PlayerInputs :
       \E ai_move \in {a.move : a \in ai_actions} :
          LET player_active == mons[Key(0, active[0])]
              ai_active == mons[Key(1, active[1])]
          IN \E first_actor \in first_actor_choices(
                                    get_effective_priority(player_active, player_move),
                                    get_effective_priority(ai_active, ai_move),
                                    get_effective_speed(player_active, field, 0),
                                    get_effective_speed(ai_active, field, 1)) :
                /\ call' = <<[move |-> player_move, ai_move |-> ai_move,
                              first_actor |-> first_actor, pre |-> Snapshot]>>
                /\ queue' = IF first_actor = 1
                            THEN <<[actor |-> 1, move |-> ai_move], [actor |-> 0, move |-> player_move]>>
                            ELSE <<[actor |-> 0, move |-> player_move], [actor |-> 1, move |-> ai_move]>>
    /\ turn_skip_action' = [i \in Sides |-> FALSE]
    /\ turn_has_acted' = [i \in Sides |-> FALSE]
    /\ mons' = [mons EXCEPT ![Key(0, active[0])] =
                     scored_defender(@, mons[Key(1, active[1])].moves,
                                     Len(mons[Key(1, active[1])].moves))]
    /\ pc' = "act"
    /\ log' = <<>>
    /\ UNCHANGED <<active, field, turn, done, winner, ret>>


\* does the loop of apply_turn stop before this action (line 1173)
loop_breaks(is_done) == is_done

\* the values the random.* calls of one action can return, given the battle
\* at its start: the accuracy roll, roll_crit, the damage roll of
\* compute_damage_for_hit (for each of the two hits of a two-hit move: no
\* combatant of the teams changes the damage it takes between the hits), the
\* paralysis roll, Red Card's random.choice, the
\* infatuation and confusion rolls, the damage of the confusion self-hit, the
\* length of a confusion and the roll of a repeated Protect
ActDraws(actor_idx, move, moved_second) ==
    LET attacker == mons[Key(actor_idx, active[actor_idx])]
        target == mons[Key(1 - actor_idx, active[1 - actor_idx])]
        acc == get_effective_accuracy(attacker, target, move, field, moved_second)
        hits == {TRUE} \cup (IF can_miss(acc) THEN {FALSE} ELSE {})
        crits == roll_crit(attacker, target, move, FALSE)
        range(c) == damage_range_for_hit(attacker, target, move, field, actor_idx, c)
        pars == IF attacker.status = "par" THEN BOOLEAN ELSE {FALSE}
        bench_size(side_idx) ==
            Cardinality({i \in PartySlots(mons, side_idx) :
                            i # active[side_idx] /\ mons[Key(side_idx, i)].current_hp > 0})
        picks_of == IF target.item = "Red Card" THEN 1..Max(1, bench_size(actor_idx))
                    ELSE 1..Max(1, bench_size(1 - actor_idx))
        infs == IF attacker.volatiles.infatuated_with = 1 - actor_idx THEN BOOLEAN ELSE {FALSE}
        self_hit == calculate_damage(attacker, attacker, CONFUSION_SELF_HIT_MOVE, field, NoSide, 1)
        confs == IF attacker.volatiles.confusion_turns > 0
                 THEN {<<FALSE, 1>>} \cup
                      {<<TRUE, d>> : d \in Max(1, Min(self_hit[1], self_hit[2]))
                                           ..Max(1, Max(self_hit[1], self_hit[2]))}
                 ELSE {<<FALSE, 1>>}
        lengths == IF move.name \in CONFUSION_STATUS_MOVES
                      \/ (move.name \in RAMPAGE_MOVES /\ attacker.volatiles.locked_turns = 1)
                   THEN 2..5 ELSE {2}
        locks == IF move.name \in RAMPAGE_MOVES /\ attacker.volatiles.locked_move = NoMove
                 THEN {2, 3} ELSE {2}
        traps == IF move.name \in PARTIAL_TRAP_MOVES THEN {4, 5} ELSE {4}
        range2(c) == damage_range_for_hit(attacker, after_calculate_damage(target, move), move,
                                          field, actor_idx, c)
        seconds == IF move.multihit = <<1, 1>> THEN {0}
                   ELSE UNION {range2(c)[1]..range2(c)[2] : c \in crits}
        protects == IF move.name \in PROTECT_MOVES /\ attacker.volatiles.protect_streak > 0
                    THEN BOOLEAN ELSE {TRUE}
        picked == IF target.item = "Red Card" \/ move.name \in PHASING_MOVES THEN picks_of ELSE {1}
    IN UNION {With(range(c), LAMBDA r :
                  {[NoDraws EXCEPT !.hit = h, !.crit = c, !.dmg = d, !.par = p, !.pick = k,
                                   !.inf = i, !.conf = cf[1], !.confdmg = cf[2],
                                   !.confturns = n, !.protect = pr, !.trap = t,
                                   !.dmg2 = d2, !.lock = lk] :
                      h \in hits, d \in r[1]..r[2], p \in pars, k \in picked, i \in infs,
                      cf \in confs, n \in lengths, pr \in protects, t \in traps, d2 \in seconds, lk \in locks}) : c \in crits}

\* one iteration of the loop of apply_turn (lines 1172-1408); an exception
\* raised in it leaves apply_turn and step(), so the call ends there with what
\* the turn had written so far
Act ==
    /\ pc = "act"
    /\ queue # <<>>
    /\ LET actor_idx == Head(queue).actor
           move == resolve_move_choice(mons[Key(actor_idx, active[actor_idx])],
                                       Head(queue).move)
           moved_second == actor_idx # call[1].first_actor
       IN IF loop_breaks(done)
          THEN /\ queue' = <<>>
               /\ pc' = "eot"
               /\ UNCHANGED <<mons, active, field, done, winner, turn_skip_action,
                              turn_has_acted, log, ret>>
          ELSE IF turn_skip_action[actor_idx]
          THEN /\ queue' = Tail(queue)
               /\ pc' = IF queue' = <<>> THEN "eot" ELSE "act"
               /\ UNCHANGED <<mons, active, field, done, winner, turn_skip_action,
                              turn_has_acted, log, ret>>
          ELSE \E rnd \in ActDraws(actor_idx, move, moved_second) :
                  \E b \in {act_one(Env(rnd), actor_idx, move, moved_second)} :
                     /\ mons' = b.mons
                     /\ active' = b.active
                     /\ field' = b.field
                     /\ done' = b.done
                     /\ winner' = b.winner
                     /\ turn_skip_action' = b.skip
                     /\ turn_has_acted' = b.acted
                     /\ log' = b.log
                     /\ queue' = IF b.raised THEN <<>> ELSE Tail(queue)
                     /\ ret' = IF b.raised THEN <<[raised |-> "AttributeError"]>> ELSE ret
                     /\ pc' = IF b.raised THEN "idle"
                              ELSE IF queue' = <<>> THEN "eot" ELSE "act"
    /\ UNCHANGED <<turn, call>>

\* the two random.choice results of _apply_moody_boosts for one side, given the
\* battle just before it
MoodyChoices(b, side_idx) ==
    LET key == ActiveKey(b, side_idx)
        mon == b.mons[key]
        ups == IF up_candidates(mon) \cap MoodyDraws # {} THEN up_candidates(mon) \cap MoodyDraws
               ELSE up_candidates(mon)
        downs(u) == With(down_candidates(boost_stat_stage(b.mons, key, u, 2)[key], u), LAMBDA all :
                       IF all = {} THEN {"None"}
                       ELSE IF all \cap MoodyDraws # {} THEN all \cap MoodyDraws ELSE all)
    IN IF mon.current_hp <= 0 \/ mon.ability # "Moody" \/ up_candidates(mon) = {}
       THEN {<<"None", "None">>}
       ELSE UNION {{<<u, d>> : d \in downs(u)} : u \in ups}

EotDraws ==
    With(eot_residuals(Env(NoDraws)), LAMBDA r :
       IF r.stopped THEN {NoDraws}
       ELSE {[NoDraws EXCEPT !.up = [i \in Sides |-> IF i = 0 THEN c0[1] ELSE c1[1]],
                             !.down = [i \in Sides |-> IF i = 0 THEN c0[2] ELSE c1[2]]] :
                c0 \in MoodyChoices(r.b, 0), c1 \in MoodyChoices(r.b, 1)})

\* an apply_turn that always runs the end-of-turn effects, to compare runs_end_of_turn with
runs_end_of_turn_always(is_done) == TRUE

\* does apply_turn run _apply_end_of_turn_effects (line 1410)
runs_end_of_turn(is_done) == ~is_done

\* the end of apply_turn (lines 1410-1411)
EndOfTurn ==
    /\ pc = "eot"
    /\ IF ~runs_end_of_turn(done)
       THEN UNCHANGED <<mons, active, field, turn, done, winner, turn_skip_action,
                        turn_has_acted, log>>
       ELSE \E rnd \in EotDraws :
               \E r \in {end_of_turn_effects(Logged(Env(rnd), <<"end_of_turn", NoSide, 0>>))} :
                  /\ mons' = r.b.mons
                  /\ active' = r.b.active
                  /\ field' = r.b.field
                  /\ done' = r.b.done
                  /\ winner' = r.b.winner
                  /\ turn_skip_action' = r.b.skip
                  /\ turn_has_acted' = r.b.acted
                  /\ log' = r.b.log
                  /\ turn' = IF r.finished THEN turn + 1 ELSE turn
    /\ pc' = "ret"
    /\ UNCHANGED <<queue, call, ret>>

\* the rest of step() (lines 1415-1431)
StepReturn ==
    /\ pc = "ret"
    /\ ret' = <<[reward |-> step_reward(done, winner), done |-> done, winner |-> winner]>>
    /\ call' = <<>>
    /\ pc' = "idle"
    /\ UNCHANGED <<mons, active, field, turn, done, winner, turn_skip_action,
                   turn_has_acted, queue, log>>

Next == BeginTurn \/ Act \/ EndOfTurn \/ StepReturn

Spec == Init /\ [][Next]_vars

\* a BattleEnv constructed over one of the move-effect teams
InitEffects ==
    \E team \in EffectTeams :
        \E b \in {Construct(team)} :
           /\ mons = b.mons
           /\ active = b.active
           /\ field = b.field
           /\ turn = 1
           /\ done = b.done
           /\ winner = b.winner
           /\ turn_skip_action = b.skip
           /\ turn_has_acted = b.acted
           /\ pc = "idle"
           /\ queue = <<>>
           /\ call = <<>>
           /\ ret = <<>>
           /\ log = b.log

SpecEffects == InitEffects /\ [][Next]_vars

SpecScenario == InitScenario /\ [][Next]_vars

(***************************************************************************)
(* Properties of the battle, checked under Spec                            *)
(***************************************************************************)
\* every combatant of side s has fainted
AllFainted(s) == \A k \in DOMAIN mons : k[1] = s => mons[k].current_hp = 0

\* the positions in the log of the turn of the events of one kind
EventsOf(kind) == {i \in 1..Len(log) : log[i][1] = kind}

\* the positions at which side s started an action of its own
MovesOf(s) == {i \in 1..Len(log) : log[i] = <<"move", s, 0>>}

\* the move is in the move list of the player's active of pre and has PP left
LegalInput(pre, move) ==
    LET mon == pre.mons[Key(0, pre.active[0])]
    IN /\ \E i \in 1..Len(mon.moves) : mon.moves[i] = move
       /\ move.pp > 0

\* C1: a step() whose move is not in the player's active's move list, or has
\* no PP left, leaves the battle (both sides, field, turn counter, done,
\* winner) as it was before the call.
C1_IllegalMoveRejected ==
    (pc = "ret" /\ ~LegalInput(call[1].pre, call[1].move)) => Snapshot = call[1].pre

\* C2: when the battle is done with winner w, every combatant of side 1 - w,
\* active or benched, has 0 HP.
C2_LoserAllFainted ==
    done => (winner \in Sides /\ AllFainted(1 - winner))

C4_StepResult ==
    (pc = "idle" /\ ret # <<>>) =>
        /\ ret[1].done = done
        /\ (ret[1].winner = NoSide) <=> ~ret[1].done
        /\ ret[1].done => (ret[1].winner = winner /\ winner \in Sides)
        /\ (ret[1].reward = 1) <=> (ret[1].done /\ ret[1].winner = 0)
        /\ (ret[1].reward = 0 - 1) <=> (ret[1].done /\ ret[1].winner = 1)
        /\ (ret[1].reward = 0) <=> ~ret[1].done

\* a step() returned -1 for a battle the AI side won
C4_Witness ==
    /\ pc = "idle"
    /\ ret # <<>>
    /\ ret[1].reward = 0 - 1
    /\ ret[1].done
    /\ ret[1].winner = 1

\* the side that started the first action of the turn (NoSide before it)
FirstMover ==
    IF EventsOf("move") = {} THEN NoSide
    ELSE log[CHOOSE i \in EventsOf("move") : \A j \in EventsOf("move") : i <= j][2]

\* the effective priority and speed of side s at the start of the turn
TurnPriority(s) ==
    get_effective_priority(call[1].pre.mons[Key(s, call[1].pre.active[s])],
                           IF s = 0 THEN call[1].move ELSE call[1].ai_move)
TurnSpeed(s) ==
    get_effective_speed(call[1].pre.mons[Key(s, call[1].pre.active[s])], call[1].pre.field, s)

\* C5: the side with the strictly higher effective priority acts first
\* whatever the speeds; with equal priorities the side with the strictly
\* higher effective speed acts first.
C5_TurnOrder ==
    (call # <<>> /\ FirstMover # NoSide) =>
        \A s \in Sides :
            (\/ TurnPriority(s) > TurnPriority(1 - s)
             \/ (TurnPriority(s) = TurnPriority(1 - s) /\ TurnSpeed(s) > TurnSpeed(1 - s)))
            => FirstMover = s

\* the player acted first on priority although the AI's active was faster
C5_Witness ==
    /\ call # <<>>
    /\ FirstMover = 0
    /\ TurnPriority(0) > TurnPriority(1)
    /\ TurnSpeed(0) < TurnSpeed(1)

\* the active of side s at the start of the turn fainted before side s had
\* started its own action and before the end-of-turn phase
FaintedBeforeActing(s) ==
    \E f \in 1..Len(log) :
        /\ log[f] = <<"faint", s, call[1].pre.active[s]>>
        /\ \A i \in MovesOf(s) \cup EventsOf("end_of_turn") : f < i

\* C6: when the first actor's move takes the second actor's active to 0 HP,
\* the second actor's queued action is not executed in that turn, and when no
\* other combatant of its side has HP left the battle is done and the first
\* actor's side has won.
C6_FaintedSecondActor ==
    (call # <<>> /\ FaintedBeforeActing(1 - call[1].first_actor)) =>
        LET first == call[1].first_actor
            second == 1 - first
        IN /\ MovesOf(second) = {}
           /\ (\A k \in DOMAIN mons :
                  (k[1] = second /\ k[2] # call[1].pre.active[second])
                  => mons[k].current_hp = 0)
              => (done /\ winner = first)

\* the AI's active fell to the player's move, its replacement came in and the
\* turn returned without the AI side having acted
C6_Witness ==
    /\ pc = "ret"
    /\ call[1].first_actor = 0
    /\ FaintedBeforeActing(1)
    /\ ~done
    /\ active[1] # call[1].pre.active[1]
    /\ MovesOf(0) # {}
    /\ MovesOf(1) = {}

\* C7: between the actions of a turn, a side whose active has fainted in the
\* turn and that has a combatant with HP left has its replacement in place,
\* switched in; and if the active fainted before the side had acted, the side
\* executes no action in the turn.
C7_ReplacementBeforeNextAction ==
    call # <<>> =>
        \A s \in Sides :
            (/\ \E i \in EventsOf("faint") : log[i][2] = s
             /\ \E k \in DOMAIN mons : k[1] = s /\ mons[k].current_hp > 0)
            => /\ mons[Key(s, active[s])].current_hp > 0
               /\ \E i \in EventsOf("switch_in") : log[i] = <<"switch_in", s, active[s]>>
               /\ FaintedBeforeActing(s) => MovesOf(s) = {}

\* C8: every combatant, active or benched, has 0 <= current_hp <= max_hp.
C8_HPInRange ==
    \A k \in DOMAIN mons :
        /\ 0 <= mons[k].current_hp
        /\ mons[k].current_hp <= max_hp(mons[k])

\* after Leech Seed drained one side and healed the other, Life Orb and Rocky
\* Helmet recoil and a substitute, one combatant is down and one is healed
C8_Witness ==
    /\ pc = "ret"
    /\ \E k \in DOMAIN mons : mons[k].current_hp = 0
    /\ \E k \in DOMAIN mons : mons[k].volatiles.leech_seed # NoSide
    /\ \E k \in DOMAIN mons : mons[k].item = "Life Orb" /\ mons[k].current_hp > 7

\* C9: the five stat stages and the accuracy and evasion stages of every
\* combatant are in -6..6.
C9_StagesInRange ==
    \A k \in DOMAIN mons :
        \A stat \in AllStageKeys : get_stage_value(mons[k], stat) \in (0 - 6)..6

\* a Simple user's second Swords Dance stopped at +6
C9_Witness ==
    /\ pc = "ret"
    /\ \E k \in DOMAIN mons :
          /\ mons[k].ability = "Simple"
          /\ mons[k].last_move_used = "Swords Dance"
          /\ mons[k].stat_stages["Atk"] = 6
          /\ call[1].pre.mons[k].stat_stages["Atk"] = 4

(***************************************************************************)
(* change_stat_stage on its own: one combatant takes a stage change of +N  *)
(* and then one of -N to the same stat, from itself, from its opponent or  *)
(* from no source                                                          *)
(***************************************************************************)
MaxStages == 3

Holder == Key(0, 1)
Opponent == Key(1, 1)

StageAbilities == {"Run Away", "Simple", "Contrary", "Defiant", "Competitive", "Mirror Armor",
                   "Clear Body", "Hyper Cutter", "Keen Eye"}
StageItems == {NoItem, "White Herb", "Clear Amulet", "Eject Pack"}
StageSources == {NoKey, Holder, Opponent}
ChangedStats == {"Atk", "SpA", "Acc"}

\* a combatant built with every stage at s
WithStages(mon, s) ==
    [mon EXCEPT !.stat_stages = [st \in StageStats |-> s],
                !.accuracy_stage = s, !.evasion_stage = s]

StageInit ==
    \E ability \in StageAbilities, item \in StageItems, s \in (0 - 6)..6 :
        LET b == BattleOf(<<WithStages(PokemonState("Kecleon", Mid, <<"Normal">>, ability, item,
                                                    0, <<Splash>>), s)>>,
                          <<PokemonState("Ditto", Mid, <<"Normal">>, "Limber", NoItem, 0,
                                         <<Splash>>)>>,
                          FieldState)
        IN /\ mons = b.mons
           /\ active = b.active
           /\ field = b.field
           /\ turn = 1
           /\ done = b.done
           /\ winner = b.winner
           /\ turn_skip_action = b.skip
           /\ turn_has_acted = b.acted
           /\ pc = "stage0"
           /\ queue = <<>>
           /\ call = <<>>
           /\ ret = <<>>
           /\ log = <<>>

\* holder.change_stat_stage(stat, +N, source=source)
StageUp ==
    /\ pc = "stage0"
    /\ \E stat \in ChangedStats, n \in 1..MaxStages, source \in StageSources :
          /\ call' = <<[stat |-> stat, stages |-> n, source |-> source, pre |-> mons]>>
          /\ mons' = change_stat_stage(mons, Holder, stat, n, source, StageOpts)
    /\ pc' = "stage1"
    /\ UNCHANGED <<active, field, turn, done, winner, turn_skip_action, turn_has_acted,
                   queue, ret, log>>

\* holder.change_stat_stage(stat, -N, source=source), for the same stat, N and source
StageDown ==
    /\ pc = "stage1"
    /\ ret' = <<[mid |-> mons]>>
    /\ mons' = change_stat_stage(mons, Holder, call[1].stat, 0 - call[1].stages,
                                 call[1].source, StageOpts)
    /\ pc' = "stage2"
    /\ UNCHANGED <<active, field, turn, done, winner, turn_skip_action, turn_has_acted,
                   queue, call, log>>

NextStage == StageUp \/ StageDown

SpecStage == StageInit /\ [][NextStage]_vars

\* the change of `stages` to the holder as it was in ms stays inside -6..6
Unclamped(ms, stages) ==
    (get_stage_value(ms[Holder], call[1].stat) + stage_delta(ms[Holder], stages, StageOpts))
        \in (0 - 6)..6

BothUnclamped ==
    /\ Unclamped(call[1].pre, call[1].stages)
    /\ Unclamped(ret[1].mid, 0 - call[1].stages)

\* the stat is back at its stage of before the two changes
StageRestored ==
    get_stage_value(mons[Holder], call[1].stat)
        = get_stage_value(call[1].pre[Holder], call[1].stat)

\* nothing reacts to the drop, blocks it or reflects it: the holder has no
\* White Herb and, when the changes come from its opponent, no ability or
\* item that blocks or reflects the drop and no Defiant or Competitive
\* raising the changed stat
Undisturbed ==
    LET h == call[1].pre[Holder]
        stat == call[1].stat
    IN /\ h.item # "White Herb"
       /\ call[1].source = Opponent =>
             /\ h.ability \notin {"Clear Body", "White Smoke", "Full Metal Body", "Mirror Armor"}
             /\ h.item # "Clear Amulet"
             /\ ~(h.ability = "Hyper Cutter" /\ stat = "Atk")
             /\ ~(h.ability = "Keen Eye" /\ stat = "Acc")
             /\ ~(h.ability = "Defiant" /\ stat = "Atk")
             /\ ~(h.ability = "Competitive" /\ stat = "SpA")

StageLowered ==
    lowers_own_stage(mons, Holder, call'[1].stat,
                     IF pc = "stage0" THEN call'[1].stages ELSE 0 - call'[1].stages,
                     call'[1].source, StageOpts)

\* C18: a change that lowers a stage of a White Herb holder, whatever its
\* source, leaves none of its stat, accuracy and evasion stages negative and
\* takes the White Herb; a change that lowers no stage of it leaves the White
\* Herb with it.
C18_WhiteHerbOnLoweringOnly ==
    [][mons[Holder].item = "White Herb" =>
          IF StageLowered
          THEN /\ mons'[Holder].item = NoItem
               /\ \A stat \in AllStageKeys : get_stage_value(mons'[Holder], stat) >= 0
          ELSE mons'[Holder].item = "White Herb"]_vars

\* a White Herb holder with every stage at -2 kept the herb through a rise of
\* its accuracy by 1 and lost it, with every negative stage, to the drop by 1
\* that its opponent caused next
C18_Witness ==
    /\ pc = "stage2"
    /\ call[1].pre[Holder].item = "White Herb"
    /\ call[1].pre[Holder].evasion_stage = 0 - 2
    /\ call[1].stat = "Acc"
    /\ call[1].source = Opponent
    /\ ret[1].mid[Holder].item = "White Herb"
    /\ ret[1].mid[Holder].accuracy_stage = 0 - 1
    /\ mons[Holder].item = NoItem
    /\ \A stat \in AllStageKeys : get_stage_value(mons[Holder], stat) = 0

(***************************************************************************)
(* Further properties of the battle, checked under Spec                    *)
(***************************************************************************)
\* C11: a combatant whose current HP is 0 has no primary status, no volatile
\* condition and no substitute.
C11_FaintedHoldsNothing ==
    \A k \in DOMAIN mons :
        mons[k].current_hp = 0 =>
            /\ mons[k].status = NoStatus
            /\ mons[k].volatiles = NoVolatiles
            /\ mons[k].substitute_hp = NoSub

\* the action of apply_turn's loop in which a side uses a damaging move whose
\* type has effectiveness 0 against the target's types
ImmuneHit(actor_idx) ==
    /\ pc = "act"
    /\ queue # <<>>
    /\ ~loop_breaks(done)
    /\ Head(queue).actor = actor_idx
    /\ ~turn_skip_action[actor_idx]
    /\ Head(queue).move.category # "Status"
    /\ Head(queue).move.power > 0
    /\ mons[Key(actor_idx, active[actor_idx])].current_hp > 0
    /\ mons[Key(1 - actor_idx, active[1 - actor_idx])].current_hp > 0
    /\ type_effectiveness(Head(queue).move.type,
                          mons[Key(1 - actor_idx, active[1 - actor_idx])].types, field)[1] = 0

\* C12: a damaging move whose type has effectiveness 0 against the defender's
\* types has the damage (0, 0), leaves the defender's HP and substitute as they
\* were, and fires no recoil, Rocky Helmet or contact-ability damage, Life Orb
\* recoil, Shell Bell healing, defender item or table effect: the attacker's
\* HP, both items, the stages of both and the field stay as they were.
C12_ImmuneNoEffect ==
    [][\A actor_idx \in Sides :
          ImmuneHit(actor_idx) =>
              LET attacker == Key(actor_idx, active[actor_idx])
                  target == Key(1 - actor_idx, active[1 - actor_idx])
              IN /\ calculate_damage(mons[attacker], mons[target], Head(queue).move, field,
                                     actor_idx, 1 - actor_idx) = <<0, 0>>
                 /\ mons'[target].current_hp = mons[target].current_hp
                 /\ mons'[target].substitute_hp = mons[target].substitute_hp
                 /\ mons'[attacker].current_hp = mons[attacker].current_hp
                 /\ mons'[attacker].item = mons[attacker].item
                 /\ mons'[target].item = mons[target].item
                 /\ mons'[attacker].stat_stages = mons[attacker].stat_stages
                 /\ mons'[target].stat_stages = mons[target].stat_stages
                 /\ mons'[target].status = mons[target].status
                 /\ field' = field]_vars

(***************************************************************************)
(* calculate_damage on its own: the damage of one move is computed, then   *)
(* computed again with a higher base power or with a higher stage of the   *)
(* attack stat the move uses, everything else as it was                    *)
(***************************************************************************)
MaxPowerRise == 3
MaxStageRise == 2

\* the attack stat calculate_damage reads for the move
AttackStat(move) == IF move.category = "Physical" THEN "Atk" ELSE "SpA"

\* calculate_damage(attacker, defender, move, field) for the two combatants
DamageNow(ms, move) == calculate_damage(ms[Key(0, 1)], ms[Key(1, 1)], move, field, 0, 1)

DamageInit ==
    \E ability \in {"Run Away", "Technician", "Guts"}, status \in {NoStatus, "brn"},
       s \in (0 - 6)..6, types \in {<<"Normal">>, <<"Rock">>, <<"Ghost">>},
       weather \in {"None", "Sun"}, lvl \in {1, 50}, type \in {"Normal", "Fire"},
       category \in {"Physical", "Special"}, power \in {0, 40, 59, 60, 61, 90} :
        LET b == BattleOf(<<[WithStages(PokemonState("Scizor", Mid, <<"Bug">>, ability, NoItem,
                                                     0, <<Splash>>), s)
                                EXCEPT !.level = lvl, !.status = status]>>,
                          <<[PokemonState("Ditto", Mid, types, "Limber", NoItem, 0, <<Splash>>)
                                EXCEPT !.level = lvl]>>,
                          [FieldState EXCEPT !.weather = weather])
        IN /\ mons = b.mons
           /\ active = b.active
           /\ field = b.field
           /\ turn = 1
           /\ done = b.done
           /\ winner = b.winner
           /\ turn_skip_action = b.skip
           /\ turn_has_acted = b.acted
           /\ pc = "damage0"
           /\ queue = <<>>
           /\ call = <<[move |-> MoveData("Strike", type, category, power, 100, 10, 0)]>>
           /\ ret = <<>>
           /\ log = <<>>

\* calculate_damage(attacker, defender, move, field)
DamageFirst ==
    /\ pc = "damage0"
    /\ ret' = <<[low |-> DamageNow(mons, call[1].move)]>>
    /\ pc' = "damage1"
    /\ UNCHANGED <<mons, active, field, turn, done, winner, turn_skip_action, turn_has_acted,
                   queue, call, log>>

\* calculate_damage again, for the move with a higher base power
DamageMorePower ==
    /\ pc = "damage1"
    /\ \E n \in 1..MaxPowerRise :
          LET stronger == [call[1].move EXCEPT !.power = @ + n]
          IN /\ call' = <<[move |-> stronger, was |-> call[1].move]>>
             /\ ret' = <<[low |-> ret[1].low, high |-> DamageNow(mons, stronger), raised |-> "power"]>>
    /\ pc' = "damage2"
    /\ UNCHANGED <<mons, active, field, turn, done, winner, turn_skip_action, turn_has_acted,
                   queue, log>>

\* calculate_damage again, for the attacker with a higher stage of the attack stat
DamageMoreStage ==
    /\ pc = "damage1"
    /\ \E n \in 1..MaxStageRise :
          /\ mons[Key(0, 1)].stat_stages[AttackStat(call[1].move)] + n <= 6
          /\ mons' = [mons EXCEPT ![Key(0, 1)].stat_stages[AttackStat(call[1].move)] = @ + n]
          /\ ret' = <<[low |-> ret[1].low, high |-> DamageNow(mons', call[1].move), raised |-> "stage"]>>
    /\ pc' = "damage2"
    /\ UNCHANGED <<active, field, turn, done, winner, turn_skip_action, turn_has_acted,
                   queue, call, log>>

NextDamage == DamageFirst \/ DamageMorePower \/ DamageMoreStage

SpecDamage == DamageInit /\ [][NextDamage]_vars

\* the second (min, max) is component-wise at least the first
NotLess == ret[1].high[1] >= ret[1].low[1] /\ ret[1].high[2] >= ret[1].low[2]

\* the rise in power takes a Technician's move from a weather-adjusted power of
\* at most 60 to one above 60
LosesTechnician ==
    /\ ret[1].raised = "power"
    /\ mons[Key(0, 1)].ability = "Technician"
    /\ weather_power(call[1].was, field) <= 60
    /\ weather_power(call[1].move, field) > 60

SwitchesBetween(s, i, j) ==
    {k \in EventsOf("switch_in") : i < k /\ k < j /\ log[k][2] = s}

\* the Intimidate events that lowered the Attack of an Eject Pack holder whose
\* side had an HP-positive bench member
EjectingIntimidates ==
    {j \in EventsOf("intimidate") : log[j][4].item = "Eject Pack" /\ log[j][4].bench}

\* was the combatant that event j is about the one that made move event m
MoveOfLowered(j, m) ==
    LET s == log[j][2]
        between == IF m < j THEN SwitchesBetween(s, m, j) ELSE SwitchesBetween(s, j, m)
    IN /\ log[m] = <<"move", s, 0>>
       /\ IF m < j THEN between = {}
          ELSE \E k \in between : log[k][3] = log[j][3] /\ \A kk \in between : kk <= k

\* since event j: another member of the side came in for the holder, the holder
\* made no move, and while it has not come back it is on the bench without its
\* Eject Pack and with the Attack stage that Intimidate left
EjectedAfter(j) ==
    LET s == log[j][2]
        slot == log[j][3]
        later == SwitchesBetween(s, j, Len(log) + 1)
    IN /\ \E k \in later : log[k][3] # slot /\ \A kk \in later : k <= kk
       /\ \A m \in j..Len(log) : ~MoveOfLowered(j, m)
       /\ (\A k \in later : log[k][3] # slot) =>
              /\ active[s] # slot
              /\ mons[Key(s, slot)].item = NoItem
              /\ get_stage_value(mons[Key(s, slot)], "Atk") = log[j][4].atk
              /\ log[j][4].atk < 0

BatonPassed(actor_idx) ==
    /\ pc = "act"
    /\ queue # <<>>
    /\ ~loop_breaks(done)
    /\ Head(queue).actor = actor_idx
    /\ ~turn_skip_action[actor_idx]
    /\ Head(queue).move.name = "Baton Pass"
    /\ Bench(Env(NoDraws), actor_idx) # <<>>
    /\ \E k \in (Len(log) + 1)..Len(log') : log'[k][1] = "switch_in" /\ log'[k][2] = actor_idx

\* what a Baton Pass hands over, of the combatant mon (of the allow-listed
\* volatiles the battle holds focus_energy)
Passed(mon) ==
    <<mon.stat_stages, mon.accuracy_stage, mon.evasion_stage, mon.substitute_hp,
      mon.volatiles.focus_energy>>

\* C15: after a Baton Pass that brought a bench member in, the active
\* combatant of that side has the stat stages, accuracy and evasion stages,
\* substitute HP and allow-listed volatiles that the passer had before the move
C15_BatonPassHandsOver ==
    [][\A actor_idx \in Sides :
          BatonPassed(actor_idx) =>
              Passed(mons'[Key(actor_idx, active'[actor_idx])])
                  = Passed(mons[Key(actor_idx, active[actor_idx])])]_vars

\* C16: after a Baton Pass that brought a bench member in, the passer has all
\* stat stages, its accuracy stage and its evasion stage at 0 and no substitute
C16_PasserKeepsNothing ==
    [][\A actor_idx \in Sides :
          BatonPassed(actor_idx) =>
              LET passer == mons'[Key(actor_idx, active[actor_idx])]
              IN /\ passer.stat_stages = NoStages
                 /\ passer.accuracy_stage = 0
                 /\ passer.evasion_stage = 0
                 /\ passer.substitute_hp = NoSub]_vars

(***************************************************************************)
(* Toxic poison, checked under SpecScenario                                *)
(***************************************************************************)
\* is the combatant badly poisoned, alive, and without Poison Heal or Magic Guard
ToxicHurts(mon) ==
    mon.status = "tox" /\ mon.current_hp > 0 /\ mon.ability \notin {"Poison Heal", "Magic Guard"}

\* the end of a turn leaves a badly poisoned active combatant in: the damage
\* its next end of turn takes is more than the damage of this one, or this one
\* was taken at the cap of 15/16
ToxicGrows ==
    \A side_idx \in Sides :
        LET key == Key(side_idx, active[side_idx])
        IN (/\ pc = "eot"
            /\ runs_end_of_turn(done)
            /\ ToxicHurts(mons[key])
            /\ active'[side_idx] = active[side_idx]
            /\ ToxicHurts(mons'[key]))
           => \/ toxic_damage(mons'[key]) > toxic_damage(mons[key])
              \/ toxic_turns(mons[key]) >= 15

\* an action brings a badly poisoned combatant back in: the damage its next
\* end of turn takes is the one of a first turn
ToxicRestarts ==
    \A side_idx \in Sides :
        LET key == Key(side_idx, active'[side_idx])
        IN (/\ pc = "act"
            /\ active'[side_idx] # active[side_idx]
            /\ ToxicHurts(mons'[key]))
           => toxic_damage(mons'[key]) = toxic_damage([mons'[key] EXCEPT !.toxic_counter = 1])

\* C17: the toxic damage of a badly poisoned combatant (without Poison Heal or
\* Magic Guard) that stays active grows strictly from one end of turn to the
\* next until the cap of 15/16 max HP, and starts again from the damage of a
\* first turn when the combatant has been out and comes back in
C17_ToxicGrowsAndRestarts == [][ToxicGrows /\ ToxicRestarts]_vars

(***************************************************************************)
(* _deal_damage on its own: a combatant that holds a berry, or nothing,    *)
(* takes up to MaxBerryHits amounts of damage of up to MaxBerryDamage each *)
(***************************************************************************)
MaxBerryHits == 3
MaxBerryDamage == 9

BerryInit ==
    \E item \in PINCH_BERRIES \cup {"Sitrus Berry", NoItem}, lvl \in {1, 5}, hp \in 1..22 :
        LET made == [PokemonState("Snorlax", Mid, <<"Normal">>, "Thick Fat", item, hp, <<Splash>>)
                        EXCEPT !.level = lvl]
            b == BattleOf(<<made>>,
                          <<PokemonState("Ditto", Mid, <<"Normal">>, "Limber", NoItem, 0,
                                         <<Splash>>)>>,
                          FieldState)
        IN /\ hp <= max_hp(made)
           /\ mons = b.mons
           /\ active = b.active
           /\ field = b.field
           /\ turn = 1
           /\ done = b.done
           /\ winner = b.winner
           /\ turn_skip_action = b.skip
           /\ turn_has_acted = b.acted
           /\ pc = "berry"
           /\ queue = <<>>
           /\ call = <<>>
           /\ ret = <<>>
           /\ log = <<>>

\* env._deal_damage(holder, amount)
BerryDamage ==
    /\ pc = "berry"
    /\ turn <= MaxBerryHits
    /\ \E amount \in 1..MaxBerryDamage :
          \E b \in {deal_damage(Env(NoDraws), Holder, amount)} :
             /\ call' = <<[amount |-> amount, pre |-> mons[Holder]]>>
             /\ ret' = <<[dealt |-> dealt_amount(Env(NoDraws), Holder, amount)]>>
             /\ mons' = b.mons
             /\ active' = b.active
             /\ done' = b.done
             /\ winner' = b.winner
             /\ turn_skip_action' = b.skip
             /\ log' = b.log
    /\ turn' = turn + 1
    /\ UNCHANGED <<field, turn_has_acted, pc, queue>>

NextBerry == BerryDamage

SpecBerry == BerryInit /\ [][NextBerry]_vars

\* the HP that the damage of this step leaves the holder with before any berry
HPAfterDamage == Max(0, mons[Holder].current_hp - call'[1].amount)

\* C19: damage that leaves a pinch berry holder alive at or under a quarter of
\* its max HP (rounded down) heals it by half of its max HP (rounded down, at
\* least 1, up to max HP) and takes the berry; any other damage leaves the
\* berry with it and heals nothing, and so does damage to a combatant whose
\* berry is gone or that is at 0 HP.
C19_PinchBerry ==
    [][LET holder == mons[Holder]
           hp_max == max_hp(holder)
       IN IF /\ holder.item \in PINCH_BERRIES
             /\ holder.current_hp > 0
             /\ 0 < HPAfterDamage
             /\ HPAfterDamage <= FloorDiv(hp_max, 4)
          THEN /\ mons'[Holder].current_hp
                     = Min(hp_max, HPAfterDamage + Max(1, FloorDiv(hp_max, 2)))
               /\ mons'[Holder].item = NoItem
          ELSE /\ holder.item \in PINCH_BERRIES \cup {NoItem} =>
                     /\ mons'[Holder].item = holder.item
                     /\ mons'[Holder].current_hp
                           = IF holder.current_hp > 0 THEN HPAfterDamage ELSE 0]_vars

\* test_pinch_berry_heal: a Figy Berry holder of max HP 12 took 9 at full HP,
\* which left it 3, and is at 9 without the berry
C19_Witness ==
    /\ pc = "berry"
    /\ call # <<>>
    /\ call[1].pre.item = "Figy Berry"
    /\ call[1].pre.current_hp = 12
    /\ max_hp(call[1].pre) = 12
    /\ call[1].amount = 9
    /\ mons[Holder].current_hp = 9
    /\ mons[Holder].item = NoItem

(***************************************************************************)
(* Entry hazards, checked under SpecScenario                               *)
(***************************************************************************)
LayersInRange ==
    \A i \in Sides : field.spikes[i] \in 0..3 /\ field.toxic_spikes[i] \in 0..2

\* this step is side actor_idx using Spikes against 3 layers or Toxic Spikes
\* against 2
HazardAtCap(actor_idx) ==
    /\ pc = "act"
    /\ queue # <<>>
    /\ ~loop_breaks(done)
    /\ Head(queue).actor = actor_idx
    /\ ~turn_skip_action[actor_idx]
    /\ \/ Head(queue).move.name = "Spikes" /\ field.spikes[1 - actor_idx] = 3
       \/ Head(queue).move.name = "Toxic Spikes" /\ field.toxic_spikes[1 - actor_idx] = 2

\* C20: whatever hazard setters, Rapid Spin, Defog and Court Change have been
\* used, each side has 0 to 3 layers of spikes and 0 to 2 of toxic spikes, and
\* Spikes against 3 layers or Toxic Spikes against 2 leaves the field as it was
C20_HazardLayersCapped ==
    [][/\ LayersInRange
       /\ LayersInRange'
       /\ \A actor_idx \in Sides : HazardAtCap(actor_idx) => field' = field]_vars

\* a Court Change brought three layers of spikes over to side 1 after its
\* Rapid Spin, and a turn later Spikes against them changed nothing
C20_Witness ==
    /\ turn = 2
    /\ log = <<<<"move", 0, 0>>>>
    /\ call[1].move.name = "Spikes"
    /\ call[1].pre.field.spikes[1] = 3
    /\ field = call[1].pre.field
    /\ mons[Key(1, 1)].stat_stages["Spe"] < 0

(***************************************************************************)
(* Screens, checked under SpecEffects                                      *)
(***************************************************************************)
ScreenNames == {"Reflect", "Light Screen", "Aurora Veil", "Tailwind"}

\* this step is an action of side actor_idx, able to act, with the move name
UsesMove(actor_idx, name) ==
    /\ pc = "act"
    /\ queue # <<>>
    /\ ~loop_breaks(done)
    /\ Head(queue).actor = actor_idx
    /\ Head(queue).move.name = name
    /\ ~turn_skip_action[actor_idx]
    /\ \A i \in Sides : mons[Key(i, active[i])].current_hp > 0
    /\ mons[Key(actor_idx, active[actor_idx])].status = NoStatus

\* <<active flag, turns left>> of the screen a move sets, on side i
ScreenOf(fld, name, i) ==
    CASE name = "Reflect" -> <<fld.reflect[i], fld.reflect_turns[i]>>
      [] name = "Light Screen" -> <<fld.light_screen[i], fld.light_screen_turns[i]>>
      [] name = "Aurora Veil" -> <<fld.aurora_veil[i], fld.aurora_veil_turns[i]>>
      [] OTHER -> <<fld.tailwind[i], fld.tailwind_turns[i]>>

ScreenDuration(name, user) ==
    IF name = "Tailwind" THEN 4 ELSE IF user.item = "Light Clay" THEN 8 ELSE 5

\* C21: a Reflect, Light Screen, Aurora Veil or Tailwind that is used sets the
\* condition on the user's side with 5 turns (8 with Light Clay, Tailwind 4),
\* and each completed end of turn takes one turn off an active condition and
\* ends it when none is left
C21_ScreenSetAndExpires ==
    [][/\ \A actor_idx \in Sides : \A name \in ScreenNames :
             UsesMove(actor_idx, name)
                => ScreenOf(field', name, actor_idx)
                      = <<TRUE, ScreenDuration(name, mons[Key(actor_idx, active[actor_idx])])>>
       /\ pc = "eot" /\ turn' = turn + 1
             => \A i \in Sides : \A name \in ScreenNames :
                   ScreenOf(field, name, i)[1]
                      => ScreenOf(field', name, i)
                            = IF ScreenOf(field, name, i)[2] > 1
                              THEN <<TRUE, ScreenOf(field, name, i)[2] - 1>>
                              ELSE <<FALSE, 0>>]_vars

(***************************************************************************)
(* Effects that cannot apply, checked under SpecEffects                    *)
(***************************************************************************)
\* what C22 says a skipped poisoning leaves as it was
PoisonRelevant(mon) == <<mon.status, mon.toxic_counter, mon.item, mon.volatiles>>

\* C22: Toxic or Poison Powder used on a Poison type changes neither its
\* status nor its toxic counter, item or volatiles (and raises nothing)
C22_PoisonTypeSkipped ==
    [][\A actor_idx \in Sides : \A name \in {"Toxic", "Poison Powder"} :
          UsesMove(actor_idx, name)
             /\ Contains(mons[Key(1 - actor_idx, active[1 - actor_idx])].types, "Poison")
          => /\ PoisonRelevant(mons'[Key(1 - actor_idx, active[1 - actor_idx])])
                   = PoisonRelevant(mons[Key(1 - actor_idx, active[1 - actor_idx])])
             /\ pc' # "idle"]_vars

(***************************************************************************)
(* Focus Sash, checked under SpecEffects                                   *)
(***************************************************************************)
\* this step is a damaging move of side actor_idx against a Focus Sash holder
AttacksSashHolder(actor_idx) ==
    /\ pc = "act"
    /\ queue # <<>>
    /\ ~loop_breaks(done)
    /\ Head(queue).actor = actor_idx
    /\ Head(queue).move.category # "Status"
    /\ ~turn_skip_action[actor_idx]
    /\ mons[Key(1 - actor_idx, active[1 - actor_idx])].item = "Focus Sash"
    /\ mons[Key(1 - actor_idx, active[1 - actor_idx])].current_hp > 0

\* C23: a Focus Sash holder attacked at full HP is never brought to 0, and
\* where the sash is used up it is left with exactly 1 HP; a holder below full
\* HP keeps the sash whatever the attack does
C23_FocusSashSurvives ==
    [][\A actor_idx \in Sides :
          AttacksSashHolder(actor_idx)
          => With(Key(1 - actor_idx, active[1 - actor_idx]), LAMBDA holder :
                IF mons[holder].current_hp = max_hp(mons[holder])
                THEN /\ mons'[holder].current_hp >= 1
                     /\ mons'[holder].item = NoItem => mons'[holder].current_hp = 1
                ELSE mons'[holder].item = "Focus Sash")]_vars

(***************************************************************************)
(* choose_ai_action on its own: the AI's side (side 1) has an active       *)
(* combatant and two further party members, and faces a Ghost type         *)
(***************************************************************************)
\* the current_hp of a bench member of max HP 12: fainted, OHKO'd by the
\* opponent's 2 to 3 damage, 2HKO'd by it, and safe
AIBenchHP == {0, 3, 5, 12}

AIInit ==
    \E active_moves \in {<<Tackle>>, <<Tackle, Splash>>, <<Tackle, QuickAttack>>},
       active_hp \in {5, 6, 12}, hp2 \in AIBenchHP, hp3 \in AIBenchHP,
       spe2 \in {Slow, Fast}, spe3 \in {Slow, Fast}, game_type \in {"Singles", "Doubles"} :
        LET b == BattleOf(
                   <<PokemonState("Gengar", Mid, <<"Ghost", "Poison">>, "Cursed Body", NoItem, 0,
                                  <<Tackle>>)>>,
                   <<PokemonState("Snorlax", Mid, <<"Normal">>, "Thick Fat", NoItem, active_hp,
                                  active_moves),
                     [PokemonState("Furret", spe2, <<"Normal">>, "Run Away", NoItem, 0, <<Tackle>>)
                         EXCEPT !.current_hp = hp2],
                     [PokemonState("Kangaskhan", spe3, <<"Normal">>, "Scrappy", NoItem, 0, <<Splash>>)
                         EXCEPT !.current_hp = hp3]>>,
                   [FieldState EXCEPT !.game_type = game_type])
        IN /\ mons = b.mons
           /\ active = b.active
           /\ field = b.field
           /\ turn = 1
           /\ done = b.done
           /\ winner = b.winner
           /\ turn_skip_action = b.skip
           /\ turn_has_acted = b.acted
           /\ pc = "ai"
           /\ queue = <<>>
           /\ call = <<>>
           /\ ret = <<>>
           /\ log = <<>>

\* choose_ai_action(state.sides[1], state.sides[0], state)
AIChoose ==
    /\ pc = "ai"
    /\ \E coin \in BOOLEAN :
       \E result \in choose_ai_action(Env(NoDraws), coin) :
          /\ call' = <<[coin |-> coin]>>
          /\ ret' = <<result>>
    /\ pc' = "chosen"
    /\ UNCHANGED <<mons, active, field, turn, done, winner, turn_skip_action, turn_has_acted,
                   queue, log>>

NextAI == AIChoose

SpecAI == AIInit /\ [][NextAI]_vars

\* the AI's party members other than its active that have HP left
AIBench == {k \in PartySlots(mons, 1) : k # active[1] /\ mons[Key(1, k)].current_hp > 0}

\* the opponent's best maximum damage against slot k of the AI's party
OppMaxAgainst(k) ==
    best_damage(mons[Key(0, active[0])], mons[Key(1, k)], mons[Key(0, active[0])].moves, field, 0)

\* slot k is faster than the opponent, or a bench slot before it in the party is
ConsideredFaster(k) ==
    \E j \in AIBench :
       j <= k /\ calc_stat(mons[Key(1, j)], "Spe") > calc_stat(mons[Key(0, active[0])], "Spe")

Viable(k) ==
    IF ConsideredFaster(k) THEN OppMaxAgainst(k) < mons[Key(1, k)].current_hp
    ELSE 2 * OppMaxAgainst(k) < mons[Key(1, k)].current_hp

\* C24: choose_ai_action returns a switch only in singles, with a bench
\* member that has HP, with every move of the active scoring -5 or less, the
\* active at half of its max HP (rounded down) or more and a viable bench
\* member; the switch target is a bench member that has HP
C24_SwitchOnlyWhenGated ==
    pc = "chosen" /\ ret[1].type = "switch"
    => /\ field.game_type = "Singles"
       /\ AIBench # {}
       /\ \A i \in 1..Len(mons[Key(1, active[1])].moves) :
             score_move(mons[Key(1, active[1])], mons[Key(0, active[0])],
                        mons[Key(1, active[1])].moves[i], field) <= 0 - 5
       /\ mons[Key(1, active[1])].current_hp >= FloorDiv(max_hp(mons[Key(1, active[1])]), 2)
       /\ \E k \in AIBench : Viable(k)
       /\ ret[1].target \in AIBench

\* the active, at exactly half of its HP and with Tackle only against the
\* Ghost, switched to a slow bench member with 5 HP that counts as fast
\* because the fainted-free slot before it is fast
C24_Witness ==
    /\ pc = "chosen"
    /\ ret[1].type = "switch"
    /\ mons[Key(1, 1)].current_hp = 6
    /\ mons[Key(1, 2)].current_hp = 3
    /\ calc_stat(mons[Key(1, 2)], "Spe") > calc_stat(mons[Key(0, 1)], "Spe")
    /\ mons[Key(1, 3)].current_hp = 5
    /\ calc_stat(mons[Key(1, 3)], "Spe") < calc_stat(mons[Key(0, 1)], "Spe")
    /\ ret[1].target = 3

(***************************************************************************)
(* The automated side's action, checked under SpecEffects                  *)
(***************************************************************************)
\* C25: the action apply_turn takes for the automated side is a result of
\* choose_ai_action, and every result of choose_ai_action (a voluntary switch
\* included) is an action apply_turn can take when a turn begins
C25_AIActionFromFullChoice ==
    pc = "idle" /\ ~done
    => \A coin \in BOOLEAN : \A result \in choose_ai_action(Env(NoDraws), coin) :
          \E a \in ai_actions : a.type = result.type /\ a.move.name = result.move

(***************************************************************************)
(* The pre-action checks of a confused and infatuated combatant            *)
(***************************************************************************)
\* this step is an action of side actor_idx that reaches _can_act_this_turn
\* with a combatant free of primary status
ReachesChecks(actor_idx) ==
    /\ pc = "act"
    /\ queue # <<>>
    /\ ~loop_breaks(done)
    /\ Head(queue).actor = actor_idx
    /\ ~turn_skip_action[actor_idx]
    /\ \A i \in Sides : mons[Key(i, active[i])].current_hp > 0
    /\ mons[Key(actor_idx, active[actor_idx])].status = NoStatus
    /\ ~is_move_blocked(Env(NoDraws), Key(actor_idx, active[actor_idx]), Head(queue).move)

\* is the combatant confused and infatuated with the side it faces
ConfusedAndInfatuated(actor_idx) ==
    /\ mons[Key(actor_idx, active[actor_idx])].volatiles.confusion_turns > 0
    /\ mons[Key(actor_idx, active[actor_idx])].volatiles.infatuated_with = 1 - actor_idx

\* C26: a combatant that is both confused and infatuated has its confusion
\* check resolved before its infatuation check: whenever it reaches the
\* pre-action checks its confusion counter is decremented, whatever the
\* infatuation check then decides
C26_ConfusionBeforeInfatuation ==
    [][\A actor_idx \in Sides :
          ReachesChecks(actor_idx) /\ ConfusedAndInfatuated(actor_idx)
          => With(Key(actor_idx, active[actor_idx]), LAMBDA k :
                mons'[k].volatiles.confusion_turns = mons[k].volatiles.confusion_turns - 1)]_vars

(***************************************************************************)
(* Protection                                                              *)
(***************************************************************************)
\* this step is a move of side actor_idx that gets past the pre-action checks
\* against a combatant whose protect flag is set
MovesAgainstProtected(actor_idx) ==
    /\ ReachesChecks(actor_idx)
    /\ mons[Key(actor_idx, active[actor_idx])].volatiles.confusion_turns = 0
    /\ mons[Key(actor_idx, active[actor_idx])].volatiles.infatuated_with = NoSide
    /\ Head(queue).move.name \notin PROTECT_MOVES
    /\ mons[Key(1 - actor_idx, active[1 - actor_idx])].volatiles.protect_active

\* what a move of the opponent may not change on a protected combatant
ProtectedPart(mon) ==
    <<mon.current_hp, mon.status, mon.stat_stages, mon.accuracy_stage, mon.evasion_stage,
      mon.volatiles, mon.substitute_hp>>

\* C27: a move used against a combatant whose protect flag is set changes
\* neither its HP, primary status, stat stages nor volatiles, and does not
\* force it to switch out
C27_ProtectedUnchanged ==
    [][\A actor_idx \in Sides :
          MovesAgainstProtected(actor_idx)
          => With(Key(1 - actor_idx, active[1 - actor_idx]), LAMBDA k :
                /\ ProtectedPart(mons'[k]) = ProtectedPart(mons[k])
                /\ active'[1 - actor_idx] = active[1 - actor_idx])]_vars

(***************************************************************************)
(* The order of the end-of-turn phases                                     *)
(***************************************************************************)
\* nothing that runs before the status damage of _apply_status_and_volatile_effects,
\* and neither status nor volatile damage, hurts the combatant
UnhurtBeforeItems(mon) ==
    /\ mon.current_hp > 0
    /\ mon.status = NoStatus
    /\ mon.volatiles.leech_seed = NoSide
    /\ mon.volatiles.partial_trap = 0
    /\ field.weather \notin {"Sandstorm", "Hail", "Snow"}

\* this step runs the end-of-turn effects, and the active combatant of
\* side_idx is alive when the pass of its side is past the volatile damage
ReachesLatePhases(side_idx) ==
    /\ pc = "eot"
    /\ runs_end_of_turn(done)
    /\ \A i \in Sides : UnhurtBeforeItems(mons[Key(i, active[i])])
    /\ mons[Key(1 - side_idx, active[1 - side_idx])].item # "Black Sludge"

\* C28: the taunt timer of an active combatant is decremented before its
\* held item acts: a taunted combatant that the phases before the timers leave
\* alive has its timer decremented by the end-of-turn effects, whatever its
\* held item then does to it
C28_TimersBeforeHeldItems ==
    [][\A side_idx \in Sides :
          With(Key(side_idx, active[side_idx]), LAMBDA k :
             ReachesLatePhases(side_idx) /\ mons[k].volatiles.taunt_turns > 0
             => mons'[k].volatiles.taunt_turns = mons[k].volatiles.taunt_turns - 1)]_vars

(***************************************************************************)
(* Fainting during the end-of-turn effects                                 *)
(***************************************************************************)
\* this step runs the end-of-turn effects, and in it the Leech Seed damage
\* takes the last HP of the active combatant of side_idx, whose side has no
\* one left to send in: nothing hurts a combatant before that, and the pass of
\* the other side ends no battle
LeechSeedEndsBattle(side_idx) ==
    LET mon == mons[Key(side_idx, active[side_idx])]
        other == mons[Key(1 - side_idx, active[1 - side_idx])]
    IN /\ pc = "eot"
       /\ runs_end_of_turn(done)
       /\ field.weather \notin {"Sandstorm", "Hail", "Snow"}
       /\ mon.status = NoStatus
       /\ mon.volatiles.leech_seed # NoSide
       /\ ~Contains(mon.types, "Grass")
       /\ mon.ability # "Magic Guard"
       /\ mon.current_hp > 0
       /\ mon.current_hp <= Max(1, FloorDiv(max_hp(mon), 8))
       /\ Bench(Env(NoDraws), side_idx) = <<>>
       /\ UnhurtBeforeItems(other)
       /\ other.item # "Black Sludge"

\* C29: once a residual step has taken the last HP of a side's last combatant
\* the battle is over and no later residual step of that turn acts: the
\* partial-trap countdown of the fainted combatant, the field and the turn
\* counter are as they were before the end-of-turn effects
C29_NothingAfterTermination ==
    [][\A side_idx \in Sides :
          LeechSeedEndsBattle(side_idx)
          => With(Key(side_idx, active[side_idx]), LAMBDA k :
                /\ done'
                /\ mons'[k].current_hp = 0
                /\ mons'[k].volatiles.partial_trap = mons[k].volatiles.partial_trap
                /\ field' = field
                /\ turn' = turn)]_vars

(***************************************************************************)
(* Weather and terrain moves                                               *)
(***************************************************************************)
\* the weather a move sets, "None" for a move that sets none
WeatherOfMove(name) ==
    CASE name = "Rain Dance" -> "Rain" [] name = "Sandstorm" -> "Sandstorm" [] OTHER -> "None"

\* the terrain a move sets, "None" for a move that sets none
TerrainOfMove(name) == IF name = "Grassy Terrain" THEN "Grassy" ELSE "None"

\* this step is a successful use of the move by side actor_idx: nothing keeps
\* its user from acting and its target is neither protected nor behind a
\* substitute
UsesSuccessfully(actor_idx, name) ==
    /\ UsesMove(actor_idx, name)
    /\ ReachesChecks(actor_idx)
    /\ mons[Key(actor_idx, active[actor_idx])].volatiles.confusion_turns = 0
    /\ mons[Key(actor_idx, active[actor_idx])].volatiles.infatuated_with = NoSide
    /\ open_to_volatile(mons[Key(1 - actor_idx, active[1 - actor_idx])])

\* C30: a successfully used weather move sets the field's weather to its
\* condition with 5 turns left, and a successfully used terrain move sets the
\* terrain to its condition with 5 turns left
C30_WeatherMoveSetsFiveTurns ==
    [][\A actor_idx \in Sides : \A name \in {"Rain Dance", "Sandstorm", "Grassy Terrain"} :
          UsesSuccessfully(actor_idx, name)
          => /\ WeatherOfMove(name) # "None"
                => field'.weather = WeatherOfMove(name) /\ field'.weather_turns = 5
             /\ TerrainOfMove(name) # "None"
                => field'.terrain = TerrainOfMove(name) /\ field'.terrain_turns = 5]_vars

(***************************************************************************)
(* Damage against a substitute                                             *)
(***************************************************************************)
\* this step is a damaging move of side actor_idx that gets past the
\* pre-action checks against an unprotected target behind a substitute
HitsSubstitute(actor_idx) ==
    /\ ReachesChecks(actor_idx)
    /\ Head(queue).move.category # "Status"
    /\ mons[Key(actor_idx, active[actor_idx])].volatiles.confusion_turns = 0
    /\ mons[Key(actor_idx, active[actor_idx])].volatiles.infatuated_with = NoSide
    /\ ~mons[Key(1 - actor_idx, active[1 - actor_idx])].volatiles.protect_active
    /\ mons[Key(1 - actor_idx, active[1 - actor_idx])].substitute_hp # NoSub

\* what the HP-damage reactions of a move (table effects, recoil, item
\* triggers) change
ReactionPart(attacker_mon, defender_mon) ==
    <<attacker_mon.current_hp, attacker_mon.item, attacker_mon.status, attacker_mon.stat_stages,
      defender_mon.item, defender_mon.status, defender_mon.stat_stages, defender_mon.volatiles>>

\* C31: a damaging move against a target behind a substitute takes from the
\* pool only: the pool never rises and never falls below 0 (0 is the removed
\* substitute); the target's HP falls only if a hit has removed the substitute
\* and a further hit of the move followed, so a one-hit move leaves the HP
\* unchanged however large its damage; while the HP is unchanged no HP-damage
\* reaction has fired.  And no combatant ever has a negative pool.
C31_SubstituteAbsorbs ==
    [][/\ \A k \in DOMAIN mons : mons'[k].substitute_hp >= 0
       /\ \A actor_idx \in Sides :
             HitsSubstitute(actor_idx)
             => LET a == Key(actor_idx, active[actor_idx])
                    k == Key(1 - actor_idx, active[1 - actor_idx])
                IN /\ mons'[k].substitute_hp <= mons[k].substitute_hp
                   /\ mons'[k].current_hp <= mons[k].current_hp
                   /\ mons'[k].current_hp < mons[k].current_hp
                      => mons'[k].substitute_hp = NoSub /\ Head(queue).move.multihit # <<1, 1>>
                   /\ mons'[k].current_hp = mons[k].current_hp
                      => ReactionPart(mons'[a], mons'[k]) = ReactionPart(mons[a], mons[k])]_vars

\* a substitute has absorbed a hit and stands: its pool is below the quarter
\* of max HP it was made with, and its owner has the HP it had left after
\* making it
C31_Witness ==
    \E k \in DOMAIN mons :
       /\ mons[k].substitute_hp # NoSub
       /\ mons[k].substitute_hp < FloorDiv(max_hp(mons[k]), 4)
       /\ mons[k].item = "Rocky Helmet"

(***************************************************************************)
(* Rampage moves                                                           *)
(***************************************************************************)
\* this step is the turn of side actor_idx's active combatant while it is
\* locked into a rampage move with `turns` uses still to come
LockedTurn(actor_idx, turns) ==
    /\ pc = "act"
    /\ queue # <<>>
    /\ ~loop_breaks(done)
    /\ Head(queue).actor = actor_idx
    /\ ~turn_skip_action[actor_idx]
    /\ \A i \in Sides : mons[Key(i, active[i])].current_hp > 0
    /\ mons[Key(actor_idx, active[actor_idx])].volatiles.locked_move \in RAMPAGE_MOVES
    /\ mons[Key(actor_idx, active[actor_idx])].volatiles.locked_turns = turns

\* C32: a rampage lasts 2 or 3 of its user's turns: the lock is set with 1 or
\* 2 turns to come, every turn the locked user takes wears it down by one, and
\* the turn that wears it down to 0 removes it and confuses the user (a user
\* that has left the field or fainted has lost the lock)
C32_RampageEndsInTime ==
    [][\A actor_idx \in Sides :
          LET k == Key(actor_idx, active[actor_idx])
              gone == active'[actor_idx] # active[actor_idx] \/ mons'[k].current_hp = 0
          IN /\ mons'[k].volatiles.locked_turns \in {0, 1, 2}
             /\ LockedTurn(actor_idx, 2)
                => gone \/ mons'[k].volatiles.locked_turns = 1
             /\ LockedTurn(actor_idx, 1)
                => gone \/ /\ mons'[k].volatiles.locked_move = NoMove
                           /\ mons'[k].volatiles.confusion_turns > 0]_vars

(***************************************************************************)
(* Disguise                                                                *)
(***************************************************************************)
\* this step is a damaging move of side actor_idx's active combatant that is
\* sure to land on the other side's active combatant
DamagingHitLands(actor_idx) ==
    LET attacker == mons[Key(actor_idx, active[actor_idx])]
        target == mons[Key(1 - actor_idx, active[1 - actor_idx])]
        move == resolve_move_choice(attacker, Head(queue).move)
    IN /\ pc = "act"
       /\ queue # <<>>
       /\ ~loop_breaks(done)
       /\ Head(queue).actor = actor_idx
       /\ ~turn_skip_action[actor_idx]
       /\ attacker.current_hp > 0 /\ target.current_hp > 0
       /\ move.category # "Status" /\ move.power > 0
       /\ attacker.status = NoStatus
       /\ attacker.volatiles.confusion_turns = 0
       /\ attacker.volatiles.infatuated_with = NoSide
       /\ ~target.volatiles.protect_active
       /\ ~can_miss(get_effective_accuracy(attacker, target, move, field,
                                           actor_idx # call[1].first_actor))

\* every first damaging hit on an intact disguise does no damage and spends it
DisguiseBlocksHit ==
    \A actor_idx \in Sides :
       LET k == Key(1 - actor_idx, active[1 - actor_idx])
       IN DamagingHitLands(actor_idx) /\ mons[k].ability = "Disguise"
          /\ ~mons[k].volatiles.disguise_busted
          => /\ mons'[k].current_hp = mons[k].current_hp
             /\ mons'[k].volatiles.disguise_busted

\* a disguise is only spent by a damaging move used on its holder
DisguiseSpentByHitOnly ==
    \A k \in DOMAIN mons :
       ~mons[k].volatiles.disguise_busted /\ mons'[k].volatiles.disguise_busted
       => /\ pc = "act"
          /\ queue # <<>>
          /\ k = Key(1 - Head(queue).actor, active[1 - Head(queue).actor])
          /\ resolve_move_choice(mons[Key(Head(queue).actor, active[Head(queue).actor])],
                                 Head(queue).move).category # "Status"

\* C33: the first damaging hit that lands on a combatant with an intact
\* Disguise deals 0 damage to it, critical or not, and marks the disguise
\* spent; nothing else ever marks a disguise spent (not the scoring of the
\* automated side's moves or any other damage estimate)
C33_DisguiseBlocksFirstHit == [][DisguiseBlocksHit /\ DisguiseSpentByHitOnly]_vars

(***************************************************************************)
(* The speed classes of the switch evaluation, checked under SpecAI        *)
(***************************************************************************)
\* the conditions of should_consider_switch that come before its loop over
\* the party
SwitchGatesPass ==
    /\ field.game_type = "Singles"
    /\ AIBench # {}
    /\ \A i \in 1..Len(mons[Key(1, active[1])].moves) :
          score_move(mons[Key(1, active[1])], mons[Key(0, active[0])],
                     mons[Key(1, active[1])].moves[i], field) <= 0 - 5
    /\ mons[Key(1, active[1])].current_hp >= FloorDiv(max_hp(mons[Key(1, active[1])]), 2)

\* the first bench slot, in party order, that is strictly faster than the
\* opponent's active combatant (0 if there is none)
FirstFasterSlot ==
    LET faster == {j \in AIBench : calc_stat(mons[Key(1, j)], "Spe")
                                      > calc_stat(mons[Key(0, active[0])], "Spe")}
    IN IF faster = {} THEN 0 ELSE CHOOSE j \in faster : \A i \in faster : j <= i

\* the test the slot k has to pass: not knocked out by one hit from the first
\* faster slot on, not knocked out by two hits before it
PassesSpeedClassTest(k) ==
    IF FirstFasterSlot # 0 /\ k >= FirstFasterSlot
    THEN OppMaxAgainst(k) < mons[Key(1, k)].current_hp
    ELSE 2 * OppMaxAgainst(k) < mons[Key(1, k)].current_hp

\* C34: in the switch evaluation the first strictly faster bench member, in
\* party order, and every bench member with HP after it are judged by the
\* not-OHKO'd test whatever their own speed, and the members before it by the
\* not-2HKO'd test: with the other conditions met and the coin in favour, a
\* switch is returned exactly when some bench member passes its test, and the
\* member switched to passes its test
C34_StickyFasterClass ==
    /\ pc = "chosen" /\ SwitchGatesPass /\ call[1].coin
       => (ret[1].type = "switch" <=> \E k \in AIBench : PassesSpeedClassTest(k))
    /\ pc = "chosen" /\ ret[1].type = "switch" => PassesSpeedClassTest(ret[1].target)

\* a switch to a slow member that two hits would knock out, which passes only
\* because the member before it in the party is faster than the opponent
C34_Witness ==
    /\ pc = "chosen"
    /\ ret[1].type = "switch"
    /\ FirstFasterSlot # 0
    /\ ret[1].target > FirstFasterSlot
    /\ calc_stat(mons[Key(1, ret[1].target)], "Spe") < calc_stat(mons[Key(0, active[0])], "Spe")
    /\ 2 * OppMaxAgainst(ret[1].target) >= mons[Key(1, ret[1].target)].current_hp

(***************************************************************************)
(* The effect table as a whole                                             *)
(***************************************************************************)
\* the moves of the teams that have a MOVE_EFFECTS entry which the turn
\* hands to apply_effects_for_move
TableMovesOfTeams ==
    {"Swords Dance", "Growl", "Screech", "Thunder Wave", "Toxic", "Poison Powder",
     "Stealth Rock", "Spikes", "Toxic Spikes", "Reflect", "Light Screen", "Aurora Veil",
     "Tailwind", "Roar", "Rain Dance", "Sandstorm", "Grassy Terrain"}

\* C35: the effects of every move of the effect table apply without an
\* exception when the move is used successfully, the side conditions, the
\* weather and the terrain among them: the turn goes on after the move, a
\* screen move has set its screen on the user's side, a weather move its
\* weather and a terrain move its terrain
C35_TableEffectsApply ==
    [][\A actor_idx \in Sides : \A name \in TableMovesOfTeams :
          UsesSuccessfully(actor_idx, name)
          => /\ pc' # "idle"
             /\ name = "Reflect" => field'.reflect[actor_idx]
             /\ name = "Light Screen" => field'.light_screen[actor_idx]
             /\ WeatherOfMove(name) # "None" => field'.weather = WeatherOfMove(name)
             /\ TerrainOfMove(name) # "None" => field'.terrain = TerrainOfMove(name)]_vars

(***************************************************************************)
(* The choice of the automated side's move                                 *)
(***************************************************************************)
\* C36: choosing the automated side's move when a turn begins, which scores
\* every move of its active combatant through the damage calculation, leaves
\* the combatants, the actives, the field and the outcome as they were
C36_MoveChoiceChangesNothing ==
    [][pc = "idle" /\ pc' = "act"
       => /\ mons' = mons
          /\ active' = active
          /\ field' = field
          /\ done' = done
          /\ winner' = winner]_vars

(***************************************************************************)
(* The finished battle                                                     *)
(***************************************************************************)
\* C37: a finished battle stays as it is: once done is set the winner never
\* changes, and no further call of step() changes a combatant, an active
\* slot, the field or the turn counter
C37_TerminalStateAbsorbing ==
    [][done => /\ done'
               /\ winner' = winner
               /\ mons' = mons
               /\ active' = active
               /\ field' = field
               /\ turn' = turn]_vars

(***************************************************************************)
(* The active combatants between the turns                                 *)
(***************************************************************************)
\* the last call has returned (rather than raised) or none was made yet
Returned == pc = "idle" /\ (ret = <<>> \/ "raised" \notin DOMAIN ret[1])

\* C38: whenever the construction or a turn has returned and the battle is
\* not finished, the active combatant of each side is a member of that side's
\* party and has HP left
C38_ActivesAliveBetweenTurns ==
    Returned /\ ~done
    => \A i \in Sides : /\ active[i] \in PartySlots(mons, i)
                        /\ mons[Key(i, active[i])].current_hp > 0

\* a turn has returned in which the automated side's first combatant fainted
\* and the next party member with HP took its place
C38_Witness ==
    /\ Returned /\ ret # <<>>
    /\ ~done
    /\ mons[Key(1, 1)].current_hp = 0
    /\ active[1] # 1
    /\ mons[Key(1, active[1])].current_hp > 0

(***************************************************************************)
(* Who executes the queued moves, checked under SpecScenario               *)
(***************************************************************************)
\* this step executes the queued move of side actor_idx: the loop of the
\* turn gets past its checks of done, the skip mark and the HP of the actives
ExecutesQueuedMove(actor_idx) ==
    /\ pc = "act"
    /\ queue # <<>>
    /\ ~loop_breaks(done)
    /\ Head(queue).actor = actor_idx
    /\ ~turn_skip_action[actor_idx]
    /\ \A i \in Sides : mons[Key(i, active[i])].current_hp > 0

\* C39: every move executed in a turn is executed by the combatant that was
\* its side's active when the turn's moves were chosen: where the active was
\* replaced before its side acted, the queued move is skipped
C39_MoveByChoosingCombatant ==
    [][\A actor_idx \in Sides :
          ExecutesQueuedMove(actor_idx) => active[actor_idx] = call[1].pre.active[actor_idx]]_vars

(***************************************************************************)
(* Chains of forced replacements                                           *)
(***************************************************************************)
\* the events that this step appends to the log
NewEvents == (Len(log) + 1)..Len(log')

\* the new event n brings in a combatant that had HP left before the step and
\* has not fainted in it so far
SwitchInOfLiving(n) ==
    /\ mons[Key(log'[n][2], log'[n][3])].current_hp > 0
    /\ \A f \in NewEvents : f < n => log'[f] # <<"faint", log'[n][2], log'[n][3]>>

\* C40: a forced replacement comes to an end, also when replacements faint to
\* the entry hazards as they come in: every combatant it brings in has HP
\* left when it is chosen, and a step that has switched a side's active ends
\* with an active that has HP left on that side or with the battle finished
C40_ReplacementChainEnds ==
    [][\A n \in NewEvents :
          log'[n][1] = "switch_in"
          => /\ SwitchInOfLiving(n)
             /\ done' \/ mons'[Key(log'[n][2], active'[log'[n][2]])].current_hp > 0]_vars

\* a replacement has fainted to the entry hazards as it came in, and the next
\* party member has taken its place
C40_Witness ==
    \E i \in Sides : \E k \in PartySlots(mons, i) :
       /\ Len(log) >= 2
       /\ \E n \in 1..(Len(log) - 1) : \E m \in (n + 1)..Len(log) :
             /\ log[n] = <<"switch_in", i, k>>
             /\ log[m][1] = "switch_in" /\ log[m][2] = i /\ log[m][3] # k
             /\ \E f \in n..m : log[f] = <<"faint", i, k>>
       /\ mons[Key(i, k)].current_hp = 0
       /\ mons[Key(i, active[i])].current_hp > 0
       /\ ~done

====
